---- MODULE Spec2Model ----
(***************************************************************************)
(* A model of the chat-to-pdf API service (api/app/main.py and the modules *)
(* it uses): the in-memory session store, the upload handler, the          *)
(* background indexing task, the status and query handlers, the hybrid     *)
(* retriever and the health-check cache of the generation-backend clients. *)
(*                                                                         *)
(* Text is a sequence of one-character strings, so that the code's string  *)
(* operations (lower, split, strip, slicing, `in`) are computed as the     *)
(* code computes them.                                                     *)
(***************************************************************************)
EXTENDS Integers, Sequences, FiniteSets, TLC

VARIABLES
    SESSION_STATUS,     \* main.py:230  session_id -> status record
    SESSION_RETRIEVERS, \* main.py:231  session_id -> HybridRetriever
    tasks,              \* the asyncio tasks created at main.py:300, by session_id
    last,               \* what the step just taken did (response of a handler, or a task step)
    req,                \* the multipart file list of the upload request in flight
    client,             \* which generation-backend client the health checks are made on
    now,                \* datetime.now(), in seconds
    _health_cache,      \* the client's _health_cache: <<>> for None, else <<health>>
    health_calls,       \* the health_check calls made on the client, in the order they started
    probes,             \* the outbound probe requests the client has sent
    hybrid_retriever,   \* a HybridRetriever used directly, as a caller of retrieval.py does
    lib_call            \* the arguments of the library call in flight: <<>> for none

serviceVars == <<SESSION_STATUS, SESSION_RETRIEVERS, tasks>>
healthVars == <<client, now, _health_cache, health_calls, probes>>
libVars == <<hybrid_retriever, lib_call>>
vars == <<SESSION_STATUS, SESSION_RETRIEVERS, tasks, last, req,
          client, now, _health_cache, health_calls, probes, hybrid_retriever, lib_call>>

-----------------------------------------------------------------------------
(* Bounds of the model                                                     *)

MaxSessions == 2

\* the upload requests of SpecUpload: up to MaxPlainFiles ordinary files, then up to
\* MaxBoundaryFiles files from the edges of the limits
MaxPlainFiles == 11
MaxBoundaryFiles == 2

\* the health checks of SpecHealth: up to MaxCalls calls while the clock is at most MaxTime
MaxCalls == 2
MaxTime == 30

-----------------------------------------------------------------------------
(* Python built-ins on text                                                *)

Min(a, b) == IF a < b THEN a ELSE b

IsSpace(c) == c \in {" ", "\n", "\t"}

IsLetter(c) == ~IsSpace(c) /\ c \notin {":", ".", ",", "?"}

\* str.strip() == "": the text is empty or all whitespace
IsBlank(text) == \A i \in 1..Len(text) : IsSpace(text[i])

LowerChar(c) ==
    CASE c = "A" -> "a" [] c = "B" -> "b" [] c = "K" -> "k" [] c = "N" -> "n"
      [] c = "P" -> "p" [] c = "R" -> "r" [] c = "W" -> "w" [] OTHER -> c

\* str.lower()
lower(text) == [i \in 1..Len(text) |-> LowerChar(text[i])]

\* needle in hay (substring test)
Contains(hay, needle) ==
    \E i \in 0..(Len(hay) - Len(needle)) : SubSeq(hay, i + 1, i + Len(needle)) = needle

\* text[:n]
Take(text, n) == SubSeq(text, 1, Min(n, Len(text)))

\* seq[-n:]
LastN(seq, n) == SubSeq(seq, IF Len(seq) > n THEN Len(seq) - n + 1 ELSE 1, Len(seq))

RECURSIVE Flatten(_)
\* "".join(parts), joined by halves
Flatten(parts) ==
    IF parts = <<>> THEN <<>>
    ELSE IF Len(parts) = 1 THEN parts[1]
    ELSE LET half == Len(parts) \div 2
         IN  Flatten(SubSeq(parts, 1, half)) \o Flatten(SubSeq(parts, half + 1, Len(parts)))

RECURSIVE RunEnd(_, _, _)
\* the last index of the run of characters satisfying InRun that starts at i
RunEnd(text, i, InRun) ==
    IF i < Len(text) /\ InRun[text[i + 1]] THEN RunEnd(text, i + 1, InRun) ELSE i

RECURSIVE SplitFrom(_, _, _)
\* str.split(): the maximal runs of non-whitespace characters, in order
SplitFrom(text, i, NonSpace) ==
    IF i > Len(text) THEN <<>>
    ELSE IF IsSpace(text[i]) THEN SplitFrom(text, i + 1, NonSpace)
    ELSE LET e == RunEnd(text, i, NonSpace)
         IN  <<SubSeq(text, i, e)>> \o SplitFrom(text, e + 1, NonSpace)

CharsOf(text) == {text[i] : i \in 1..Len(text)}

split(text) == SplitFrom(text, 1, [c \in CharsOf(text) |-> ~IsSpace(c)])

\* str(n) for the small numbers the code formats
Digits(n) ==
    CASE n = 1 -> <<"1">> [] n = 2 -> <<"2">> [] n = 3 -> <<"3">>
      [] n = 4 -> <<"4">> [] n = 5 -> <<"5">> [] OTHER -> <<"0">>

-----------------------------------------------------------------------------
(* Limits (main.py:233-237)                                                *)

MAX_FILES_PER_SESSION == 10
MAX_TOTAL_BYTES == 100 * 1024 * 1024
MAX_FILE_BYTES == 50 * 1024 * 1024
MAX_PAGES_PER_PDF == 500

-----------------------------------------------------------------------------
(* PDF validation (main.py:55-81).  A file is [filename, size, pdf,        *)
(* embed_fails]: pdf is what PdfReader makes of the bytes ([parses,        *)
(* pages], a page being [raises, text] for extract_text), size is          *)
(* len(content), and embed_fails is the 1-based number of the chunk whose  *)
(* embedding raises while the file is indexed (0: none).                   *)

Ok == [code |-> 200, detail |-> <<>>]
HTTPException(status_code, detail) == [code |-> status_code, detail |-> detail]

\* reader.pages[i].extract_text() or "", "" when it raises
PageTextOrEmpty(page) == IF page.raises THEN <<>> ELSE page.text

TooManyPages(num_pages) == num_pages > MAX_PAGES_PER_PDF

validate_pdf_file(name, pdf) ==
    IF ~pdf.parses THEN HTTPException(400, <<name, " is not a valid PDF">>)
    ELSE LET num_pages == Len(pdf.pages)
             pages_to_check == Min(num_pages, 3)
             has_text == \E i \in 1..pages_to_check : ~IsBlank(PageTextOrEmpty(pdf.pages[i]))
         IN  IF TooManyPages(num_pages)
             THEN HTTPException(400, <<name, " exceeds 500 pages">>)
             ELSE IF ~has_text
             THEN HTTPException(400, <<name, " appears scanned/unsearchable (no text layer)">>)
             ELSE Ok

-----------------------------------------------------------------------------
(* Chunking (retrieval.py:21-67).  The cl100k_base tokenizer is stood in   *)
(* for by a greedy one: a token is a run of letters with at most one       *)
(* leading space, or any other single character; decoding concatenates.    *)

\* a token starts at every character that is not a letter, and at a letter that
\* follows neither a letter nor a space
TokenStart(text, i, Letter) ==
    \/ i = 1
    \/ ~Letter[text[i]]
    \/ ~Letter[text[i - 1]] /\ text[i - 1] # " "

\* the last index of the token that starts at i
TokenEnd(text, i, Letter) ==
    LET first == IF text[i] = " " /\ i < Len(text) /\ Letter[text[i + 1]]
                 THEN i + 1 ELSE i
    IN  IF Letter[text[first]] THEN RunEnd(text, first, Letter) ELSE first

RECURSIVE EncodeFrom(_, _, _, _)
\* the tokens that start at the positions lo..hi, in order, found by halves
EncodeFrom(text, lo, hi, Letter) ==
    IF lo > hi THEN <<>>
    ELSE IF lo = hi
    THEN IF TokenStart(text, lo, Letter)
         THEN <<SubSeq(text, lo, TokenEnd(text, lo, Letter))>> ELSE <<>>
    ELSE LET mid == (lo + hi) \div 2
         IN  EncodeFrom(text, lo, mid, Letter) \o EncodeFrom(text, mid + 1, hi, Letter)

\* enc.encode(text)
Encode(text) == EncodeFrom(text, 1, Len(text), [c \in CharsOf(text) |-> IsLetter(c)])

\* enc.decode(tokens)
Decode(tokens) == Flatten(tokens)

\* mutant: the overlap is rounded up
OverlapTokens_Ceiling(max_tokens, overlap_pct) == (max_tokens * overlap_pct + 99) \div 100

\* int(max_tokens * overlap_pct), overlap_pct given in percent
OverlapTokens(max_tokens, overlap_pct) == (max_tokens * overlap_pct) \div 100

\* mutant: the window takes one token more than max_tokens
WindowEnd_OneMore(start, max_tokens, n) == Min(start + max_tokens + 1, n)

\* min(start + max_tokens, len(tokens)) (retrieval.py:52)
WindowEnd(start, max_tokens, n) == Min(start + max_tokens, n)

\* mutant: the next window starts one token late
NextStart_Late(end, overlap_tokens) == end - overlap_tokens + 1

\* mutant: the next window starts where the last one ended
NextStart_NoOverlap(end, overlap_tokens) == end

\* the next window start (retrieval.py:63)
NextStart(end, overlap_tokens) == end - overlap_tokens

RECURSIVE ChunkWindows(_, _, _, _)
\* the while loop of chunk_text (retrieval.py:51-65)
ChunkWindows(tokens, start, max_tokens, overlap_tokens) ==
    LET end == WindowEnd(start, max_tokens, Len(tokens))
        chunk_tokens == SubSeq(tokens, start + 1, end)
        chunk == [text |-> Decode(chunk_tokens), token_count |-> Len(chunk_tokens)]
    IN  IF end < Len(tokens)
        THEN <<chunk>> \o ChunkWindows(tokens, NextStart(end, overlap_tokens),
                                       max_tokens, overlap_tokens)
        ELSE <<chunk>>

chunk_text(text, max_tokens, overlap_pct) ==
    IF IsBlank(text) THEN <<>>
    ELSE LET tokens == Encode(text)
         IN  IF Len(tokens) <= max_tokens
             THEN <<[text |-> text, token_count |-> Len(tokens)]>>
             ELSE ChunkWindows(tokens, 0, max_tokens, OverlapTokens(max_tokens, overlap_pct))

DEFAULT_MAX_TOKENS == 500
DEFAULT_OVERLAP_PCT == 15

-----------------------------------------------------------------------------
(* Scores.  The code's floats are modelled by exact fractions [n, d] with  *)
(* d > 0, compared by cross-multiplication.                                *)

Rat(n, d) == [n |-> n, d |-> d]
RatAdd(a, b) == Rat(a.n * b.d + b.n * a.d, a.d * b.d)
RatMul(a, b) == Rat(a.n * b.n, a.d * b.d)
RatLess(a, b) == a.n * b.d < b.n * a.d
RatEq(a, b) == a.n * b.d = b.n * a.d
RatLeq(a, b) == a.n * b.d <= b.n * a.d

RECURSIVE InsertDesc(_, _, _)
\* index x placed after every index whose key is >= its own (a stable descending insertion)
InsertDesc(sorted, x, keys) ==
    IF sorted = <<>> THEN <<x>>
    ELSE IF RatLess(keys[Head(sorted)], keys[x]) THEN <<x>> \o sorted
    ELSE <<Head(sorted)>> \o InsertDesc(Tail(sorted), x, keys)

RECURSIVE SortedIndexes(_, _, _)
SortedIndexes(keys, i, acc) ==
    IF i > Len(keys) THEN acc
    ELSE SortedIndexes(keys, i + 1, InsertDesc(acc, i, keys))

\* list.sort(key=..., reverse=True): descending by keys[i], equal keys keep their order
SortDesc(seq, keys) ==
    LET order == SortedIndexes(keys, 1, <<>>)
    IN  [i \in 1..Len(seq) |-> seq[order[i]]]

Scores(results) == [i \in 1..Len(results) |-> results[i].score]

-----------------------------------------------------------------------------
(* Embedder (retrieval.py:84-101).  The sentence-embedding model is stood  *)
(* in for by a deterministic one: a text's vector counts its occurrences   *)
(* of each feature character.                                              *)

EmbedFeatures == <<"a", "o">>

CountChar(text, c) == Cardinality({i \in 1..Len(text) : text[i] = c})

\* embed_texts([text])[0]
embed_text(text) == [f \in 1..Len(EmbedFeatures) |-> CountChar(text, EmbedFeatures[f])]

RECURSIVE SumSq(_, _, _)
SumSq(u, v, i) == IF i > Len(u) THEN 0 ELSE (u[i] - v[i]) * (u[i] - v[i]) + SumSq(u, v, i + 1)

\* the squared Euclidean distance of faiss.IndexFlatL2
L2Distance(u, v) == SumSq(u, v, 1)

-----------------------------------------------------------------------------
(* VectorIndex (retrieval.py:104-163): [vectors, metadata], two parallel   *)
(* lists.                                                                  *)

EmptyVectorIndex == [vectors |-> <<>>, metadata |-> <<>>]

VectorIndex_add(index, vector, metadata) ==
    [vectors |-> Append(index.vectors, vector), metadata |-> Append(index.metadata, metadata)]

VectorIndex_size(index) == Len(index.vectors)

\* mutant: the hits are ranked farthest first
NegDistances_Farthest(hits) == [i \in 1..Len(hits) |-> hits[i].score]

NegDistances(hits) == [i \in 1..Len(hits) |-> Rat(0 - hits[i].score.n, hits[i].score.d)]

\* the k nearest entries, nearest first; entries at equal distance in insertion order
VectorIndex_search(index, query_vector, k) ==
    IF VectorIndex_size(index) = 0 THEN <<>>
    ELSE LET kk == Min(k, VectorIndex_size(index))
             hits == [i \in 1..VectorIndex_size(index) |->
                         [score |-> Rat(L2Distance(index.vectors[i], query_vector), 1),
                          metadata |-> index.metadata[i]]]
         IN  SubSeq(SortDesc(hits, NegDistances(hits)), 1, kk)

-----------------------------------------------------------------------------
(* KeywordIndex (retrieval.py:166-220): the list of stored documents.      *)

EmptyKeywordIndex == [documents |-> <<>>]

KeywordIndex_add(index, text, metadata) ==
    [documents |-> Append(index.documents, [metadata EXCEPT !.text = text])]

\* the score of one document: one for each query term found in its text
KeywordScore(query_terms, doc) ==
    LET text_lower == lower(doc.text)
    IN  Cardinality({t \in 1..Len(query_terms) : Contains(text_lower, query_terms[t])})

RECURSIVE ScoredDocs(_, _, _)
ScoredDocs(documents, query_terms, i) ==
    IF i > Len(documents) THEN <<>>
    ELSE LET score == KeywordScore(query_terms, documents[i])
         IN  (IF score > 0
              THEN <<[score |-> Rat(score, 1), metadata |-> documents[i]]>>
              ELSE <<>>) \o ScoredDocs(documents, query_terms, i + 1)

KeywordIndex_search(index, query, k) ==
    IF index.documents = <<>> THEN <<>>
    ELSE LET query_terms == split(lower(query))
         IN  IF query_terms = <<>> THEN <<>>
             ELSE LET scored_docs == ScoredDocs(index.documents, query_terms, 1)
                  IN  Take(SortDesc(scored_docs, Scores(scored_docs)), k)

-----------------------------------------------------------------------------
(* HybridRetriever (retrieval.py:223-338)                                  *)

NewHybridRetriever == [vector_index |-> EmptyVectorIndex, keyword_index |-> EmptyKeywordIndex]

add_document(retriever, text, metadata) ==
    LET full_metadata == [metadata EXCEPT !.text = text]
    IN  [vector_index |-> VectorIndex_add(retriever.vector_index, embed_text(text), full_metadata),
         keyword_index |-> KeywordIndex_add(retriever.keyword_index, text, full_metadata)]

SEMANTIC_WEIGHT == Rat(7, 10)
KEYWORD_WEIGHT == Rat(3, 10)
Zero == Rat(0, 1)
One == Rat(1, 1)

DocKey(metadata) == <<metadata.doc_id, metadata.chunk_id>>

\* 1.0 / (1.0 + distance)
Similarity(distance) == Rat(distance.d, distance.d + distance.n)

\* a list of pairs in place of the dict: an assignment always adds an entry
DictSet_Append(doc_map, key, value) == Append(doc_map, [key |-> key, value |-> value])

\* dict assignment: an existing key keeps its place, a new key goes last
DictSet(doc_map, key, value) ==
    IF \E i \in 1..Len(doc_map) : doc_map[i].key = key
    THEN [i \in 1..Len(doc_map) |->
             IF doc_map[i].key = key THEN [key |-> key, value |-> value] ELSE doc_map[i]]
    ELSE Append(doc_map, [key |-> key, value |-> value])

DictHas(doc_map, key) == \E i \in 1..Len(doc_map) : doc_map[i].key = key

DictGet(doc_map, key) == doc_map[CHOOSE i \in 1..Len(doc_map) : doc_map[i].key = key].value

SemanticEntry(result) ==
    LET semantic_score == Similarity(result.score)
    IN  [score |-> RatMul(semantic_score, SEMANTIC_WEIGHT),
         metadata |-> result.metadata,
         semantic_score |-> semantic_score,
         keyword_score |-> Zero]

\* the keyword score replacing the entry's score in place of being added to it
CombinedEntry_KeywordOnly(entry, keyword_score) ==
    [entry EXCEPT !.keyword_score = keyword_score,
                  !.score = RatMul(keyword_score, KEYWORD_WEIGHT)]

CombinedEntry(entry, keyword_score) ==
    [entry EXCEPT !.keyword_score = keyword_score,
                  !.score = RatAdd(RatMul(entry.semantic_score, SEMANTIC_WEIGHT),
                                   RatMul(keyword_score, KEYWORD_WEIGHT))]

KeywordOnlyEntry(result) ==
    [score |-> RatMul(result.score, KEYWORD_WEIGHT),
     metadata |-> result.metadata,
     semantic_score |-> Zero,
     keyword_score |-> result.score]

RECURSIVE AddSemantic(_, _, _)
\* retrieval.py:300-310
AddSemantic(doc_map, semantic_results, i) ==
    IF i > Len(semantic_results) THEN doc_map
    ELSE AddSemantic(DictSet(doc_map, DocKey(semantic_results[i].metadata),
                             SemanticEntry(semantic_results[i])),
                     semantic_results, i + 1)

RECURSIVE AddKeyword(_, _, _)
\* retrieval.py:313-332
AddKeyword(doc_map, keyword_results, i) ==
    IF i > Len(keyword_results) THEN doc_map
    ELSE LET result == keyword_results[i]
             doc_key == DocKey(result.metadata)
         IN  AddKeyword(IF DictHas(doc_map, doc_key)
                        THEN DictSet(doc_map, doc_key,
                                     CombinedEntry(DictGet(doc_map, doc_key), result.score))
                        ELSE DictSet(doc_map, doc_key, KeywordOnlyEntry(result)),
                        keyword_results, i + 1)

_combine_results(semantic_results, keyword_results, k) ==
    LET doc_map == AddKeyword(AddSemantic(<<>>, semantic_results, 1), keyword_results, 1)
        combined == [i \in 1..Len(doc_map) |-> doc_map[i].value]
    IN  Take(SortDesc(combined, Scores(combined)), k)

\* mutant: only the keyword index is searched
search_KeywordOnly(retriever, query, k) ==
    IF VectorIndex_size(retriever.vector_index) = 0
       /\ Len(retriever.keyword_index.documents) = 0
    THEN <<>>
    ELSE _combine_results(<<>>, KeywordIndex_search(retriever.keyword_index, query, k), k)

search(retriever, query, k) ==
    IF VectorIndex_size(retriever.vector_index) = 0
       /\ Len(retriever.keyword_index.documents) = 0
    THEN <<>>
    ELSE LET semantic_results ==
                 IF VectorIndex_size(retriever.vector_index) > 0
                 THEN VectorIndex_search(retriever.vector_index, embed_text(query), k)
                 ELSE <<>>
             keyword_results == KeywordIndex_search(retriever.keyword_index, query, k)
         IN  _combine_results(semantic_results, keyword_results, k)

-----------------------------------------------------------------------------
(* Session store and upload (main.py:229-310)                              *)

NoError == "<none>"

\* session ids that are never minted
UnknownIds == {0}
NoSession == CHOOSE s \in UnknownIds : TRUE

SessionIds == 1..MaxSessions

\* str(uuid.uuid4()): an id no session has; ids are named in order of creation
NewSessionId == Cardinality(DOMAIN SESSION_STATUS) + 1

TooManyFiles(n) == n > MAX_FILES_PER_SESSION

\* mutant: a file of exactly the limit is turned away
FileTooLarge_AtLimit(size) == size >= MAX_FILE_BYTES

FileTooLarge(size) == size > MAX_FILE_BYTES
TotalTooLarge(total_bytes) == total_bytes > MAX_TOTAL_BYTES

RECURSIVE SumSizes(_, _)
SumSizes(files, n) == IF n = 0 THEN 0 ELSE files[n].size + SumSizes(files, n - 1)

\* f.filename or "file.pdf"
BufferName(f) == IF f.filename = "" THEN "file.pdf" ELSE f.filename

Least(S) == CHOOSE i \in S : \A j \in S : i <= j

\* the checks of upload_files in the order the code makes them (main.py:266-287)
upload_validation(files) ==
    IF Len(files) = 0 THEN HTTPException(400, <<"No files uploaded">>)
    ELSE IF TooManyFiles(Len(files)) THEN HTTPException(400, <<"Too many files (>10)">>)
    ELSE LET oversized == {i \in 1..Len(files) : FileTooLarge(files[i].size)}
             invalid == {i \in 1..Len(files) :
                            validate_pdf_file(BufferName(files[i]), files[i].pdf).code # 200}
         IN  IF oversized # {}
             THEN HTTPException(400, <<"File ", files[Least(oversized)].filename,
                                       " exceeds 50 MB limit">>)
             ELSE IF TotalTooLarge(SumSizes(files, Len(files)))
             THEN HTTPException(400, <<"Total upload size exceeds 100 MB">>)
             ELSE IF invalid # {}
             THEN validate_pdf_file(BufferName(files[Least(invalid)]),
                                    files[Least(invalid)].pdf)
             ELSE Ok

FileBuffers(files) == [i \in 1..Len(files) |-> [files[i] EXCEPT !.filename = BufferName(files[i])]]

Step(op, code, detail, session_id, body) ==
    [op |-> op, code |-> code, detail |-> detail, session_id |-> session_id, body |-> body]

StoreSession(session_id, files) ==
    /\ SESSION_STATUS' =
           [s \in DOMAIN SESSION_STATUS \cup {session_id} |->
               IF s = session_id
               THEN [status |-> "indexing", total_files |-> Len(files),
                     files_indexed |-> 0, error |-> NoError]
               ELSE SESSION_STATUS[s]]
    /\ SESSION_RETRIEVERS' =
           [s \in DOMAIN SESSION_RETRIEVERS \cup {session_id} |->
               IF s = session_id THEN NewHybridRetriever ELSE SESSION_RETRIEVERS[s]]
    /\ tasks' =
           [s \in DOMAIN tasks \cup {session_id} |->
               IF s = session_id
               THEN [file_buffers |-> FileBuffers(files), i |-> 0, pc |-> "scheduled"]
               ELSE tasks[s]]

\* mutant: a failed check does not end the handler
Aborts_Never(check) == FALSE

\* raise HTTPException(...) ends the handler where it is raised (main.py:266-287)
Aborts(check) == check.code # 200

upload_files(files) ==
    LET session_id == NewSessionId
        check == upload_validation(files)
    IN  /\ IF Aborts(check)
           THEN UNCHANGED <<SESSION_STATUS, SESSION_RETRIEVERS, tasks>>
           ELSE StoreSession(session_id, files)
        /\ last' = IF check.code # 200
                   THEN Step("upload", check.code, check.detail, NoSession, <<>>)
                   ELSE Step("upload", 200, <<>>, session_id,
                             [status |-> "indexing", total_files |-> Len(files),
                              files_indexed |-> 0,
                              totals |-> [files |-> Len(files),
                                          bytes |-> SumSizes(files, Len(files))]])

-----------------------------------------------------------------------------
(* The files of the model                                                  *)

Page(text) == [raises |-> FALSE, text |-> text]
Pdf(pages) == [parses |-> TRUE, pages |-> pages]
NotAPdf == [parses |-> FALSE, pages |-> <<>>]

T_AnnPolicy == <<"a", "n", "n", " ", "p", "o", "l", "i", "c", "y">>
T_BobPerson == <<"B", "o", "b", " ", "p", "e", "r", "s", "o", "n">>

FileA == [filename |-> "a.pdf", size |-> 1000, pdf |-> Pdf(<<Page(T_AnnPolicy)>>), embed_fails |-> 0]
FileB == [filename |-> "b.pdf", size |-> 2000, pdf |-> Pdf(<<Page(T_BobPerson)>>), embed_fails |-> 0]
FileBad == [filename |-> "c.pdf", size |-> 1000, pdf |-> Pdf(<<Page(T_AnnPolicy)>>), embed_fails |-> 1]
FileNotPdf == [filename |-> "d.pdf", size |-> 10, pdf |-> NotAPdf, embed_fails |-> 0]

\* a text of n one-letter words with single spaces between them, the letters cycling
LongWords == <<"a", "n", "o", "p", "b", "k">>
WordsCycled(n) ==
    [i \in 1..(2 * n - 1) |->
        IF i % 2 = 0 THEN " " ELSE LongWords[(((i + 1) \div 2 - 1) % Len(LongWords)) + 1]]

\* the number of words of the long files: three chunks at the default chunk size
LongFileWords == 930

FileLong ==
    [filename |-> "l.pdf", size |-> 3000, pdf |-> Pdf(<<Page(WordsCycled(LongFileWords))>>),
     embed_fails |-> 0]
\* the embedding of its second chunk raises
FileLongBad ==
    [filename |-> "m.pdf", size |-> 3000, pdf |-> Pdf(<<Page(WordsCycled(LongFileWords))>>),
     embed_fails |-> 2]

\* the upload requests of the specification SpecIndexing
IndexingUploads ==
    { <<FileLong>>, <<FileLong, FileB>>, <<FileA, FileLong>>, <<FileB, FileA>>,
      <<FileA, FileLongBad, FileB>>, <<FileLongBad>>, <<FileA, FileLong, FileB>> }

\* the upload requests of the specification Spec
Uploads ==
    { <<>>, <<FileA>>, <<FileB>>, <<FileA, FileB>>, <<FileBad, FileB>>, <<FileA, FileBad>>,
      <<FileNotPdf>>, <<FileA, FileNotPdf>> }

\* a second file named like FileA, with another text
FileSameName == [filename |-> "a.pdf", size |-> 2000, pdf |-> Pdf(<<Page(T_BobPerson)>>), embed_fails |-> 0]

\* the upload requests of the specification SpecSameName
SameNameUploads == { <<FileA, FileSameName>>, <<FileSameName, FileB>>, <<FileA, FileB>>, <<FileSameName>> }

Files ==
    UNION {{files[i] : i \in 1..Len(files)} :
              files \in Uploads \cup IndexingUploads \cup SameNameUploads}

-----------------------------------------------------------------------------
(* Background indexing (main.py:313-366)                                   *)

EMBED_ERROR == "embedding failed"

RECURSIVE FullText(_, _)
\* main.py:317-323: each page's text and a newline; a page whose extraction raises is skipped
FullText(pages, i) ==
    IF i > Len(pages) THEN <<>>
    ELSE (IF pages[i].raises THEN <<>> ELSE pages[i].text \o <<"\n">>) \o FullText(pages, i + 1)

\* mutant: the chunk ids of a file count from one
ChunkMetadata_OneBased(filename, chunk_idx, chunk_content) ==
    [doc_id |-> filename, chunk_id |-> chunk_idx + 1, page |-> 1,
     sentenceSpan |-> <<0, Len(chunk_content)>>, text |-> chunk_content]

\* main.py:331-337
ChunkMetadata(filename, chunk_idx, chunk_content) ==
    [doc_id |-> filename, chunk_id |-> chunk_idx, page |-> 1,
     sentenceSpan |-> <<0, Len(chunk_content)>>, text |-> chunk_content]

RECURSIVE AddChunks(_, _, _, _)
\* main.py:329-338: the chunks go in, in order, from the 0-based chunk_idx on
AddChunks(retriever, filename, chunks, chunk_idx) ==
    IF chunk_idx >= Len(chunks) THEN retriever
    ELSE AddChunks(add_document(retriever, chunks[chunk_idx + 1].text,
                                ChunkMetadata(filename, chunk_idx, chunks[chunk_idx + 1].text)),
                   filename, chunks, chunk_idx + 1)

\* chunk_text(full_text) of main.py:326, tabulated over the files of the model
FileChunks ==
    [file \in Files |->
        chunk_text(FullText(file.pdf.pages, 1), DEFAULT_MAX_TOKENS, DEFAULT_OVERLAP_PCT)]

\* the retriever is updated in place, so what was added before an exception stays
process_single_pdf(file, retriever) ==
    LET chunks == FileChunks[file]
        raises == file.embed_fails # 0 /\ file.embed_fails <= Len(chunks)
        added == IF raises THEN SubSeq(chunks, 1, file.embed_fails - 1) ELSE chunks
    IN  [retriever |-> AddChunks(retriever, file.filename, added, 0),
         raised |-> raises,
         message |-> IF raises THEN EMBED_ERROR ELSE NoError]

\* whether indexing the file raises
WillRaise(file) == file.embed_fails # 0 /\ file.embed_fails <= Len(FileChunks[file])

\* mutant: every task indexes into the retriever of the first session
RetrieverKey_Shared(session_id) == 1

\* SESSION_RETRIEVERS.get(session_id) (main.py:344)
RetrieverKey(session_id) == session_id

\* mutant: the progress counter runs one ahead
Progress_OffByOne(i) == i + 2

\* state["files_indexed"] = i + 1 (main.py:355), i the 0-based index of the file just processed
Progress(i) == i + 1

\* mutant: the task ends without marking the session
MarkDone_Skipped(state) == state

\* mutant: the task ends with a status of its own
MarkDone_Ready(state) == [state EXCEPT !.status = "ready"]

\* state["status"] = "done" (main.py:359-361)
MarkDone(state) == [state EXCEPT !.status = "done"]

\* mutant: the exception ends the task unrecorded
OnTaskException_Unrecorded(state, message) == state

\* mutant: the file whose indexing raised is counted as indexed
OnTaskException_CountsFile(state, message) ==
    [state EXCEPT !.status = "error", !.error = message, !.files_indexed = @ + 1]

\* the handler of the task's try block (main.py:362-366)
OnTaskException(state, message) == [state EXCEPT !.status = "error", !.error = message]

\* one run of the task between two suspension points: a file, or the final marking
process_pdfs_background(session_id) ==
    /\ session_id \in DOMAIN tasks
    /\ tasks[session_id].pc # "finished"
    /\ last' = Step("task", 0, <<>>, session_id, <<>>)
    /\ LET t == tasks[session_id]
           key == RetrieverKey(session_id)
       IN  IF key \notin DOMAIN SESSION_RETRIEVERS
           THEN /\ tasks' = [tasks EXCEPT ![session_id].pc = "finished"]
                /\ UNCHANGED <<SESSION_STATUS, SESSION_RETRIEVERS>>
           ELSE IF t.i < Len(t.file_buffers)
           THEN \E r \in {process_single_pdf(t.file_buffers[t.i + 1], SESSION_RETRIEVERS[key])} :
                    /\ IF r.raised
                       THEN /\ SESSION_STATUS' =
                                   [SESSION_STATUS EXCEPT ![session_id] =
                                       OnTaskException(SESSION_STATUS[session_id], r.message)]
                            /\ tasks' = [tasks EXCEPT ![session_id].pc = "finished"]
                       ELSE /\ SESSION_STATUS' =
                                   [SESSION_STATUS EXCEPT ![session_id].files_indexed = Progress(t.i)]
                            /\ tasks' = [tasks EXCEPT ![session_id].i = t.i + 1,
                                                      ![session_id].pc = "sleeping"]
                    /\ SESSION_RETRIEVERS' = [SESSION_RETRIEVERS EXCEPT ![key] = r.retriever]
           ELSE /\ SESSION_STATUS' =
                       [SESSION_STATUS EXCEPT ![session_id] = MarkDone(SESSION_STATUS[session_id])]
                /\ tasks' = [tasks EXCEPT ![session_id].pc = "finished"]
                /\ UNCHANGED SESSION_RETRIEVERS

-----------------------------------------------------------------------------
(* Status polling (main.py:371-384)                                        *)

\* mutant: a poll that reports a finished session forgets it
index_status_Evicts(session_id) ==
    /\ IF session_id \notin DOMAIN SESSION_STATUS
       THEN /\ last' = Step("index_status", 404, <<"Unknown session_id">>, session_id, <<>>)
            /\ UNCHANGED SESSION_STATUS
       ELSE LET state == SESSION_STATUS[session_id]
            IN  /\ last' = Step("index_status", 200, <<>>, session_id,
                                [status |-> state.status, total_files |-> state.total_files,
                                 files_indexed |-> state.files_indexed])
                /\ SESSION_STATUS' =
                       IF state.status = "done"
                       THEN [s \in DOMAIN SESSION_STATUS \ {session_id} |-> SESSION_STATUS[s]]
                       ELSE SESSION_STATUS
    /\ UNCHANGED <<SESSION_RETRIEVERS, tasks>>

index_status(session_id) ==
    /\ IF session_id \notin DOMAIN SESSION_STATUS
       THEN last' = Step("index_status", 404, <<"Unknown session_id">>, session_id, <<>>)
       ELSE LET state == SESSION_STATUS[session_id]
            IN  last' = Step("index_status", 200, <<>>, session_id,
                             [status |-> state.status, total_files |-> state.total_files,
                              files_indexed |-> state.files_indexed])
    /\ UNCHANGED <<SESSION_STATUS, SESSION_RETRIEVERS, tasks>>

-----------------------------------------------------------------------------
(* Fallback answer (main.py:84-108)                                        *)

S_BasedOnYourFiles == <<"B", "a", "s", "e", "d", " ", "o", "n", " ", "y", "o", "u", "r", " ", "f", "i", "l", "e", "s", ":">>
S_NotFound == <<"N", "o", "t", " ", "f", "o", "u", "n", "d", " ", "i", "n", " ", "y", "o", "u", "r", " ", "f", "i", "l", "e", "s", ".">>
S_Ellipsis == <<".", ".", ".">>
S_Result == <<"R", "e", "s", "u", "l", "t", " ">>

\* text[:n] + "..." if len(text) > n else text
Truncated(text, n) == IF Len(text) > n THEN Take(text, n) \o S_Ellipsis ELSE text

RECURSIVE CombinedText(_, _, _)
\* main.py:98-103 over search_results[:3]
CombinedText(results, i, n) ==
    IF i > n THEN <<>>
    ELSE S_Result \o Digits(i) \o <<":", " ">> \o Truncated(results[i].metadata.text, 300)
         \o <<"\n", "\n">> \o CombinedText(results, i + 1, n)

_generate_fallback_answer(search_results) ==
    IF search_results = <<>> THEN S_NotFound
    ELSE IF Len(search_results) = 1
    THEN S_BasedOnYourFiles \o <<" ">> \o Truncated(search_results[1].metadata.text, 1000)
    ELSE S_BasedOnYourFiles \o <<"\n", "\n">>
         \o Truncated(CombinedText(search_results, 1, Min(3, Len(search_results))), 1500)

-----------------------------------------------------------------------------
(* Query (main.py:414-555).  A request is [session_id, question,           *)
(* conversation_history]; a backend is what the generation backend does    *)
(* during the request: [client, health, generate], where client is "ok"    *)
(* or "raises", health is [raises, is_healthy, is_available], the Health   *)
(* value health_check returns unless it raises, and generate is [raises,   *)
(* text], the text generate_text returns unless it raises.                 *)

S_PreviousQuestion == <<"P", "r", "e", "v", "i", "o", "u", "s", " ", "q", "u", "e", "s", "t", "i", "o", "n", ":", " ">>
S_PreviousAnswer == <<"P", "r", "e", "v", "i", "o", "u", "s", " ", "a", "n", "s", "w", "e", "r", ":", " ">>
S_ContextHeader == <<"\n", "\n", "C", "o", "n", "t", "e", "x", "t", " ", "f", "r", "o", "m", " ", "p", "r", "e", "v", "i", "o", "u", "s", " ", "c", "o", "n", "v", "e", "r", "s", "a", "t", "i", "o", "n", ":", "\n">>

NAME_WORDS == << <<"n", "a", "m", "e">>, <<"p", "e", "r", "s", "o", "n">>, <<"w", "h", "o">>,
                 <<"w", "h", "o", "m">> >>

ALTERNATIVE_QUERIES ==
    << <<"R", "e", "p", "o", "r", "t", " ", "f", "o", "r">>,
       <<"N", "a", "m", "e", ":">>,
       <<"p", "e", "r", "s", "o", "n">>,
       <<"i", "n", "d", "i", "v", "i", "d", "u", "a", "l">>,
       <<"s", "u", "b", "j", "e", "c", "t">>,
       <<"K", "a", "t", "e", "r", "y", "n", "a">>,
       <<"K", "a", "l", "a", "s", "h", "n", "y", "k", "o", "v", "a">> >>

RECURSIVE RecentContext(_, _)
\* main.py:434-441 over conversation_history[-4:]
RecentContext(messages, i) ==
    IF i > Len(messages) THEN <<>>
    ELSE (IF messages[i].role = "user"
          THEN <<S_PreviousQuestion \o messages[i].content>>
          ELSE IF messages[i].role = "assistant"
          THEN <<S_PreviousAnswer \o Truncated(messages[i].content, 200)>>
          ELSE <<>>) \o RecentContext(messages, i + 1)

RECURSIVE JoinLines(_, _)
\* "\n".join(lines)
JoinLines(lines, i) ==
    IF i > Len(lines) THEN <<>>
    ELSE lines[i] \o (IF i < Len(lines) THEN <<"\n">> ELSE <<>>) \o JoinLines(lines, i + 1)

ContextQuery(question, conversation_history) ==
    LET recent_context == IF conversation_history = <<>> THEN <<>>
                          ELSE RecentContext(LastN(conversation_history, 4), 1)
    IN  IF recent_context # <<>>
        THEN question \o S_ContextHeader \o JoinLines(recent_context, 1)
        ELSE question

\* not search_results or search_results[0]['score'] < 0.3
WeakResults(search_results) ==
    search_results = <<>> \/ RatLess(search_results[1].score, Rat(3, 10))

AsksForName(question) ==
    \E w \in 1..Len(NAME_WORDS) : Contains(lower(question), NAME_WORDS[w])

\* alt_results and alt_results[0]['score'] > 0.1
AltAccepted(alt_results) == alt_results # <<>> /\ RatLess(Rat(1, 10), alt_results[1].score)

RECURSIVE TryAlternatives(_, _, _)
\* main.py:464-469: the first alternative query whose results are accepted replaces the
\* results; a is the 1-based number of the alternative tried next
TryAlternatives(retriever, search_results, a) ==
    IF a > Len(ALTERNATIVE_QUERIES)
    THEN [results |-> search_results, searches |-> 1 + Len(ALTERNATIVE_QUERIES)]
    ELSE LET alt_results == search(retriever, ALTERNATIVE_QUERIES[a], 3)
         IN  IF AltAccepted(alt_results)
             THEN [results |-> alt_results, searches |-> 1 + a]
             ELSE TryAlternatives(retriever, search_results, a + 1)

\* main.py:448-469: [results, searches], searches counting the calls of retriever.search
Retrieve(retriever, question, conversation_history) ==
    LET first == search(retriever, ContextQuery(question, conversation_history), 5)
    IN  IF WeakResults(first) /\ AsksForName(question)
        THEN TryAlternatives(retriever, first, 1)
        ELSE [results |-> first, searches |-> 1]

T_Generated == <<"o", "k">>

Healthy == [raises |-> FALSE, is_healthy |-> TRUE, is_available |-> TRUE]
ModelMissing == [raises |-> FALSE, is_healthy |-> FALSE, is_available |-> TRUE]
Unavailable == [raises |-> FALSE, is_healthy |-> FALSE, is_available |-> FALSE]
HealthRaises == [raises |-> TRUE, is_healthy |-> FALSE, is_available |-> FALSE]

Generates == [raises |-> FALSE, text |-> T_Generated]
GenerateRaises == [raises |-> TRUE, text |-> <<>>]

\* the behaviours of the generation backend during one request
Backends ==
    { [client |-> "raises", health |-> Healthy, generate |-> Generates],
      [client |-> "ok", health |-> HealthRaises, generate |-> Generates],
      [client |-> "ok", health |-> ModelMissing, generate |-> Generates],
      [client |-> "ok", health |-> Unavailable, generate |-> Generates],
      [client |-> "ok", health |-> Healthy, generate |-> GenerateRaises],
      [client |-> "ok", health |-> Healthy, generate |-> Generates] }

NoBackend == [client |-> "unused", health |-> Healthy, generate |-> Generates]

\* mutant: the backend's exception leaves the handler
OnBackendError_Propagates(search_results, calls) ==
    [answer |-> <<>>, calls |-> calls, error |-> TRUE]

\* the except branch of the generation block (main.py:536-539): the fallback answers
OnBackendError(search_results, calls) ==
    [answer |-> _generate_fallback_answer(search_results),
     calls |-> Append(calls, "fallback"), error |-> FALSE]

\* mutant: the text is generated without a health check
Generate_Unchecked(search_results, backend) ==
    IF backend.client = "raises"
    THEN OnBackendError(search_results, <<"get_ollama_client">>)
    ELSE IF backend.generate.raises
    THEN OnBackendError(search_results, <<"get_ollama_client", "generate_text">>)
    ELSE [answer |-> S_BasedOnYourFiles \o <<" ">> \o backend.generate.text,
          calls |-> <<"get_ollama_client", "generate_text">>, error |-> FALSE]

\* main.py:484-539: [answer, calls, error], calls listing what the request invoked, in
\* order, and error telling whether an exception leaves the handler
Generate(search_results, backend) ==
    IF backend.client = "raises"
    THEN OnBackendError(search_results, <<"get_ollama_client">>)
    ELSE IF backend.health.raises
    THEN OnBackendError(search_results, <<"get_ollama_client", "health_check">>)
    ELSE IF ~backend.health.is_healthy \/ ~backend.health.is_available
    THEN [answer |-> _generate_fallback_answer(search_results),
          calls |-> <<"get_ollama_client", "health_check", "fallback">>, error |-> FALSE]
    ELSE IF backend.generate.raises
    THEN OnBackendError(search_results, <<"get_ollama_client", "health_check", "generate_text">>)
    ELSE [answer |-> S_BasedOnYourFiles \o <<" ">> \o backend.generate.text,
          calls |-> <<"get_ollama_client", "health_check", "generate_text">>, error |-> FALSE]

\* the results the prompt is built from (main.py:502: search_results[:3])
ContextSet(search_results) == Take(search_results, 3)

\* mutant: every result is cited, not the first three only
Citations_Unbounded(search_results) ==
    [i \in 1..Len(search_results) |->
        [file |-> search_results[i].metadata.doc_id,
         page |-> search_results[i].metadata.page,
         sentenceSpan |-> search_results[i].metadata.sentenceSpan,
         id |-> <<"citation_", i>>]]

\* main.py:541-550
Citations(search_results) ==
    [i \in 1..Min(3, Len(search_results)) |->
        [file |-> search_results[i].metadata.doc_id,
         page |-> search_results[i].metadata.page,
         sentenceSpan |-> search_results[i].metadata.sentenceSpan,
         id |-> <<"citation_", i>>]]

QueryBody(answer, citations, searches, retrieved, backend, calls, context) ==
    [answer |-> answer, citations |-> citations, searches |-> searches,
     retrieved |-> retrieved, backend |-> backend, calls |-> calls, context |-> context]

QueryError(status_code, detail, request) ==
    Step("query", status_code, detail, request.session_id,
         QueryBody(<<>>, <<>>, 0, 0, NoBackend, <<>>, <<>>))

\* mutant: only a session still indexing is turned away
SessionReady_NotIndexing(session_state) == session_state.status # "indexing"

\* mutant: a session is queried whatever its status
SessionReady_Any(session_state) == TRUE

\* state["status"] != "done" turns the request away (main.py:418-420)
SessionReady(session_state) == session_state.status = "done"

\* the response to a request whose generation went as g: an exception that leaves the
\* handler is answered with a 500 by the framework
QueryResult(request, r, backend, g) ==
    IF g.error
    THEN Step("query", 500, <<"Internal Server Error">>, request.session_id,
              QueryBody(<<>>, <<>>, r.searches, Len(r.results), backend, g.calls, <<>>))
    ELSE Step("query", 200, <<>>, request.session_id,
              QueryBody(g.answer, Citations(r.results), r.searches, Len(r.results),
                        backend, g.calls, ContextSet(r.results)))

\* the responses query can give to a request, one for each behaviour of the backend
QueryResponses(request) ==
    IF request.session_id \notin DOMAIN SESSION_STATUS
    THEN {QueryError(404, <<"Session not found">>, request)}
    ELSE IF ~SessionReady(SESSION_STATUS[request.session_id])
    THEN {QueryError(400, <<"Session still indexing">>, request)}
    ELSE IF request.session_id \notin DOMAIN SESSION_RETRIEVERS
    THEN {QueryError(404, <<"Session retriever not found">>, request)}
    ELSE LET r == Retrieve(SESSION_RETRIEVERS[request.session_id], request.question,
                           request.conversation_history)
         IN  IF r.results = <<>>
             THEN {Step("query", 200, <<>>, request.session_id,
                        QueryBody(S_NotFound, <<>>, r.searches, 0, NoBackend, <<>>, <<>>))}
             ELSE {QueryResult(request, r, backend, Generate(r.results, backend)) :
                     backend \in Backends}

query(request) ==
    /\ last' \in QueryResponses(request)
    /\ UNCHANGED <<SESSION_STATUS, SESSION_RETRIEVERS, tasks>>

-----------------------------------------------------------------------------
(* The inputs of the model                                                 *)

Q_Policy == <<"p", "o", "l", "i", "c", "y">>
Q_WhoAaa == <<"W", "h", "o", " ", "a", "a", "a">>

History ==
    <<[role |-> "user", content |-> Q_WhoAaa, timestamp |-> "t1"],
      [role |-> "assistant", content |-> T_AnnPolicy, timestamp |-> "t2"]>>

QueryRequests ==
    { [session_id |-> s, question |-> qh[1], conversation_history |-> qh[2]] :
        s \in SessionIds \cup UnknownIds, qh \in {<<Q_Policy, <<>>>>, <<Q_WhoAaa, <<>>>>, <<Q_Policy, History>>} }

-----------------------------------------------------------------------------
(* Health checks (ollama_client.py:98-151, openai_client.py:47-110).  A    *)
(* call runs from its start to the await of its probe request in one step  *)
(* and from the probe's answer to its return in another; a call that finds *)
(* the cache fresh returns within its first step.  A health value is       *)
(* [is_healthy, is_available, error_message, last_check], its             *)
(* error_message a text in words, <<>> for None.                           *)

Clients == {"ollama", "openai"}

CACHE_SECONDS == 30

TickSeconds == {10, 19}

\* what the probe request can come back with
ProbeResponses(c) ==
    IF c = "ollama" THEN {"model_listed", "model_missing", "error"}
    ELSE {"completion", "auth_error", "auth_error_naming_key", "error"}

\* the key the hosted-API client is constructed with (openai_client.py:36)
api_key == "sk-secret-key-12345"

\* str(e) of the exception the probe request raised
ErrorText(response) ==
    CASE response = "auth_error" -> <<"Incorrect", "API", "key", "provided">>
      [] response = "auth_error_naming_key" ->
             <<"Authentication", "failed", "for", "key", api_key>>
      [] OTHER -> <<"Connection", "refused">>

Health(is_healthy, is_available, error_message, last_check) ==
    [is_healthy |-> is_healthy, is_available |-> is_available,
     error_message |-> error_message, last_check |-> last_check]

\* ollama_client.py:114-151
OllamaHealth(response, t) ==
    CASE response = "model_listed" -> Health(TRUE, TRUE, <<>>, t)
      [] response = "model_missing" ->
             Health(FALSE, TRUE, <<"Target", "model", "llama3.1:8b", "not", "found.">>, t)
      [] OTHER ->
             Health(FALSE, FALSE,
                    <<"Ollama", "service", "unavailable:">> \o ErrorText(response), t)

\* openai_client.py:63-110
OpenAIHealth(response, t) ==
    CASE response = "completion" -> Health(TRUE, TRUE, <<>>, t)
      [] response \in {"auth_error", "auth_error_naming_key"} ->
             Health(FALSE, FALSE,
                    <<"OpenAI", "authentication", "failed:">> \o ErrorText(response), t)
      [] OTHER ->
             Health(FALSE, FALSE,
                    <<"OpenAI", "service", "unavailable:">> \o ErrorText(response), t)

HealthOf(c, response, t) ==
    IF c = "ollama" THEN OllamaHealth(response, t) ELSE OpenAIHealth(response, t)

\* mutant: a result of exactly the cache duration ago still counts
CacheFresh_Inclusive(cache, t) == cache # <<>> /\ t - cache[1].last_check <= CACHE_SECONDS

\* the cache holds a result less than the cache duration old
\* (ollama_client.py:109-111, openai_client.py:58-60)
CacheFresh(cache, t) == cache # <<>> /\ t - cache[1].last_check < CACHE_SECONDS

HealthCall(use_cache, started, cache_at_start, pc, result) ==
    [use_cache |-> use_cache, started |-> started, cache_at_start |-> cache_at_start,
     pc |-> pc, result |-> result]

HealthStep(call, response) ==
    Step("health_check", 0, <<>>, NoSession, [call |-> call, response |-> response])

\* the call up to its return of the cached value or to the await of its probe
health_check(use_cache) ==
    LET call == Len(health_calls) + 1
    IN  IF use_cache /\ CacheFresh(_health_cache, now)
        THEN /\ health_calls' =
                    Append(health_calls,
                           HealthCall(use_cache, now, _health_cache, "returned", _health_cache))
             /\ last' = HealthStep(call, "cached")
             /\ UNCHANGED <<client, now, _health_cache, probes>>
        ELSE /\ health_calls' =
                    Append(health_calls,
                           HealthCall(use_cache, now, _health_cache, "probing", <<>>))
             /\ probes' = probes + 1
             /\ last' = HealthStep(call, "awaited")
             /\ UNCHANGED <<client, now, _health_cache>>

\* the call from the answer of its probe to its return
health_check_resumed(call, response) ==
    /\ call \in 1..Len(health_calls)
    /\ health_calls[call].pc = "probing"
    /\ LET health == HealthOf(client, response, now)
       IN  /\ _health_cache' = <<health>>
           /\ health_calls' = [health_calls EXCEPT ![call].pc = "returned",
                                                   ![call].result = <<health>>]
    /\ last' = HealthStep(call, response)
    /\ UNCHANGED <<client, now, probes>>

InitHealth(c) ==
    /\ client = c
    /\ now = 0
    /\ _health_cache = <<>>
    /\ health_calls = <<>>
    /\ probes = 0

\* no library call in flight, and a retriever as HybridRetriever() constructs it
InitLib ==
    /\ hybrid_retriever = NewHybridRetriever
    /\ lib_call = <<>>

-----------------------------------------------------------------------------
(* The service: uploads, background tasks, status polls and queries        *)

InitService ==
    /\ SESSION_STATUS = <<>>
    /\ SESSION_RETRIEVERS = <<>>
    /\ tasks = <<>>
    /\ last = Step("start", 0, <<>>, NoSession, <<>>)

Init ==
    /\ InitService
    /\ req = <<>>
    /\ InitHealth("ollama")
    /\ InitLib

\* an accepted upload needs a session id of the model left
HasRoom(files, max_sessions) ==
    upload_validation(files).code # 200 \/ Cardinality(DOMAIN SESSION_STATUS) < max_sessions

Upload ==
    \E files \in Uploads :
        HasRoom(files, MaxSessions) /\ upload_files(files) /\ UNCHANGED <<req, healthVars, libVars>>

Task ==
    \E session_id \in SessionIds :
        process_pdfs_background(session_id) /\ UNCHANGED <<req, healthVars, libVars>>

Poll ==
    \E session_id \in SessionIds \cup UnknownIds :
        index_status(session_id) /\ UNCHANGED <<req, healthVars, libVars>>

Query == \E request \in QueryRequests : query(request) /\ UNCHANGED <<req, healthVars, libVars>>

Next == Upload \/ Task \/ Poll \/ Query

Spec == Init /\ [][Next]_vars

\* the steps that write or read the status of a session: query reads the status and
\* writes nothing (main.py:414-555)
NextIndexing == Upload \/ Task \/ Poll

\* the event loop runs every task that is ready
FairSpec ==
    /\ Init
    /\ [][NextIndexing]_vars
    /\ \A session_id \in SessionIds :
           WF_vars(process_pdfs_background(session_id) /\ UNCHANGED <<req, healthVars, libVars>>)

-----------------------------------------------------------------------------
(* The upload handler on requests at the edges of its limits               *)

Pages(n, text) == [i \in 1..n |-> Page(text)]

T_Blank == <<" ", "\n">>

FileAtLimit ==
    [filename |-> "e.pdf", size |-> 50 * 1024 * 1024,
     pdf |-> Pdf(Pages(1, T_AnnPolicy)), embed_fails |-> 0]
FileOverLimit ==
    [filename |-> "f.pdf", size |-> 50 * 1024 * 1024 + 1,
     pdf |-> Pdf(Pages(1, T_AnnPolicy)), embed_fails |-> 0]
FileScanned ==
    [filename |-> "g.pdf", size |-> 1000, pdf |-> Pdf(Pages(2, T_Blank)), embed_fails |-> 0]
FileLateText ==
    [filename |-> "h.pdf", size |-> 1000,
     pdf |-> Pdf(Pages(3, T_Blank) \o Pages(1, T_AnnPolicy)), embed_fails |-> 0]
FileFirstPageRaises ==
    [filename |-> "i.pdf", size |-> 1000,
     pdf |-> Pdf(<<[raises |-> TRUE, text |-> <<>>]>> \o Pages(1, T_AnnPolicy)),
     embed_fails |-> 0]
FileMaxPages ==
    [filename |-> "j.pdf", size |-> 1000,
     pdf |-> Pdf(Pages(MAX_PAGES_PER_PDF, T_AnnPolicy)), embed_fails |-> 0]
FileTooManyPages ==
    [filename |-> "k.pdf", size |-> 1000,
     pdf |-> Pdf(Pages(MAX_PAGES_PER_PDF + 1, T_AnnPolicy)), embed_fails |-> 0]
FileUnnamed ==
    [filename |-> "", size |-> 1000, pdf |-> Pdf(Pages(1, T_AnnPolicy)), embed_fails |-> 0]

BoundaryFiles ==
    { FileAtLimit, FileOverLimit, FileNotPdf, FileScanned, FileLateText,
      FileFirstPageRaises, FileMaxPages, FileTooManyPages, FileUnnamed }

UploadRequests ==
    { [i \in 1..n |-> FileA] \o tail :
        n \in 0..MaxPlainFiles,
        tail \in UNION {[1..m -> BoundaryFiles] : m \in 0..MaxBoundaryFiles} }

InitUpload ==
    /\ InitService
    /\ req \in UploadRequests
    /\ InitHealth("ollama")
    /\ InitLib

UploadRequest ==
    HasRoom(req, MaxSessions) /\ upload_files(req) /\ UNCHANGED <<req, healthVars, libVars>>

NextUpload == UploadRequest \/ Poll

SpecUpload == InitUpload /\ [][NextUpload]_vars

-----------------------------------------------------------------------------
(* The health checks of one client                                         *)

InitHealthChecks ==
    /\ InitService
    /\ req = <<>>
    /\ \E c \in Clients : InitHealth(c)
    /\ InitLib

HealthCheck ==
    \E use_cache \in BOOLEAN :
        Len(health_calls) < MaxCalls /\ health_check(use_cache) /\ UNCHANGED <<serviceVars, req, libVars>>

ProbeAnswered ==
    \E call \in 1..MaxCalls, response \in ProbeResponses(client) :
        health_check_resumed(call, response) /\ UNCHANGED <<serviceVars, req, libVars>>

Tick ==
    \E seconds \in TickSeconds :
        /\ now + seconds <= MaxTime
        /\ now' = now + seconds
        /\ last' = Step("tick", 0, <<>>, NoSession, <<>>)
        /\ UNCHANGED <<serviceVars, req, libVars, client, _health_cache, health_calls, probes>>

NextHealth == HealthCheck \/ ProbeAnswered \/ Tick

SpecHealth == InitHealthChecks /\ [][NextHealth]_vars

-----------------------------------------------------------------------------
(* Properties                                                              *)

Known(s) == s \in DOMAIN SESSION_STATUS

UploadedFiles(s) == tasks[s].file_buffers

UploadedNames(s) == {UploadedFiles(s)[i].filename : i \in 1..Len(UploadedFiles(s))}

ChunksOf(file) == chunk_text(FullText(file.pdf.pages, 1), DEFAULT_MAX_TOKENS, DEFAULT_OVERLAP_PCT)

RaisingFiles(s) == {i \in 1..Len(UploadedFiles(s)) : WillRaise(UploadedFiles(s)[i])}

StoredEntries(retriever) ==
    {retriever.vector_index.metadata[i] : i \in 1..Len(retriever.vector_index.metadata)}
    \cup {retriever.keyword_index.documents[i] : i \in 1..Len(retriever.keyword_index.documents)}

\* C1: query succeeds only on a session whose status is "done"; an unknown session gets
\* 404 "Session not found" and a session in any other status 400 "Session still
\* indexing", both without a retrieval or a call of the generation backend.
C1_QueryNeedsDoneSession ==
    last.op = "query" =>
        LET sid == last.session_id
        IN  /\ last.code = 200 => Known(sid) /\ SESSION_STATUS[sid].status = "done"
            /\ ~Known(sid) =>
                   /\ last.code = 404 /\ last.detail = <<"Session not found">>
                   /\ last.body.searches = 0 /\ last.body.calls = <<>>
            /\ (Known(sid) /\ SESSION_STATUS[sid].status # "done") =>
                   /\ last.code = 400 /\ last.detail = <<"Session still indexing">>
                   /\ last.body.searches = 0 /\ last.body.calls = <<>>

C1_Witness ==
    /\ last.op = "query" /\ last.code = 400
    /\ Known(last.session_id) /\ SESSION_STATUS[last.session_id].status = "error"

\* C2: every session has 0 <= files_indexed <= total_files, total_files being the number
\* of files of its upload, and no poll reports files_indexed > total_files.
C2_FilesIndexedBounded ==
    /\ \A s \in DOMAIN SESSION_STATUS :
           /\ 0 <= SESSION_STATUS[s].files_indexed
           /\ SESSION_STATUS[s].files_indexed <= SESSION_STATUS[s].total_files
           /\ SESSION_STATUS[s].total_files = Len(UploadedFiles(s))
    /\ (last.op = "index_status" /\ last.code = 200) =>
           /\ 0 <= last.body.files_indexed
           /\ last.body.files_indexed <= last.body.total_files

C2_Witness ==
    /\ last.op = "index_status" /\ last.code = 200
    /\ last.body.status = "indexing"
    /\ last.body.files_indexed = 2 /\ last.body.total_files = 2

BackendFails(backend) ==
    \/ backend.client = "raises"
    \/ backend.client = "ok" /\ backend.health.raises
    \/ /\ backend.client = "ok" /\ ~backend.health.raises
       /\ backend.health.is_healthy /\ backend.health.is_available
       /\ backend.generate.raises

\* C4: a query that retrieved at least one result and whose generation path fails (the
\* client, the health check or generate_text raises) is still answered with a success
\* whose answer is not empty and contains "Based on your files:", with at least one
\* citation.
C4_FallbackOnBackendFailure ==
    (last.op = "query" /\ last.body.retrieved >= 1 /\ BackendFails(last.body.backend)) =>
        /\ last.code = 200
        /\ last.body.answer # <<>>
        /\ Contains(last.body.answer, S_BasedOnYourFiles)
        /\ Len(last.body.citations) >= 1

C4_Witness ==
    /\ last.op = "query" /\ last.code = 200 /\ last.body.retrieved >= 1
    /\ last.body.backend.client = "ok" /\ last.body.backend.health = Healthy
    /\ last.body.backend.generate.raises
    /\ last.body.calls = <<"get_ollama_client", "health_check", "generate_text", "fallback">>

\* C5: an accepted upload of N files leaves its session in status "indexing" with
\* files_indexed = 0, and a session none of whose files raises while it is indexed
\* eventually has status "done" when the background tasks are scheduled fairly.
C5_EventuallyDone ==
    /\ [](  (last.op = "upload" /\ last.code = 200) =>
               /\ Known(last.session_id)
               /\ SESSION_STATUS[last.session_id].status = "indexing"
               /\ SESSION_STATUS[last.session_id].files_indexed = 0
               /\ SESSION_STATUS[last.session_id].total_files = Len(UploadedFiles(last.session_id)))
    /\ \A s \in SessionIds :
           (Known(s) /\ RaisingFiles(s) = {}) ~> (Known(s) /\ SESSION_STATUS[s].status = "done")

C5_Witness ==
    \E s \in DOMAIN SESSION_STATUS :
        /\ SESSION_STATUS[s].status = "done"
        /\ SESSION_STATUS[s].total_files = 2
        /\ RaisingFiles(s) = {}

EntryFromUpload(entry, s) ==
    \E i \in 1..Len(UploadedFiles(s)) :
        /\ entry.doc_id = UploadedFiles(s)[i].filename
        /\ \E c \in 1..Len(ChunksOf(UploadedFiles(s)[i])) :
               /\ entry.chunk_id = c - 1
               /\ entry.text = ChunksOf(UploadedFiles(s)[i])[c].text

SessionsIsolated ==
    /\ \A s \in DOMAIN SESSION_RETRIEVERS :
           \A entry \in StoredEntries(SESSION_RETRIEVERS[s]) : EntryFromUpload(entry, s)
    /\ (last.op = "query" /\ last.code = 200) =>
           \A c \in 1..Len(last.body.citations) :
               last.body.citations[c].file \in UploadedNames(last.session_id)

OnlyOwnTaskWrites ==
    \A s \in DOMAIN SESSION_RETRIEVERS :
        SESSION_RETRIEVERS'[s] # SESSION_RETRIEVERS[s] => (last'.op = "task" /\ last'.session_id = s)

\* C8: every entry of a session's retriever comes from a file uploaded in that session,
\* every citation of a query names a file uploaded in the queried session, and a
\* session's retriever changes only in a step of that session's own indexing task.
C8_SessionIsolation == []SessionsIsolated /\ [][OnlyOwnTaskWrites]_vars

C8_Witness ==
    /\ Known(1) /\ Known(2)
    /\ SESSION_STATUS[1].status = "done" /\ SESSION_STATUS[2].status = "done"
    /\ UploadedNames(1) \cap UploadedNames(2) = {}
    /\ last.op = "query" /\ last.code = 200 /\ last.session_id = 2
    /\ Len(last.body.citations) >= 1

\* C10: when indexing a file raises, the session gets status "error" and the exception's
\* message, files_indexed stays at the number of files completed before, no later file
\* is indexed, the task is over, and the handlers go on answering.
C10_TaskErrorRecorded ==
    \A s \in DOMAIN SESSION_STATUS :
        LET state == SESSION_STATUS[s]
            t == tasks[s]
            bad == RaisingFiles(s)
        IN  /\ state.status = "error" =>
                /\ bad # {}
                /\ state.error = EMBED_ERROR
                /\ t.pc = "finished"
                /\ state.files_indexed = Least(bad) - 1
                /\ \A entry \in StoredEntries(SESSION_RETRIEVERS[s]) :
                       \E i \in 1..Least(bad) : entry.doc_id = UploadedFiles(s)[i].filename
            /\ (bad # {} /\ (t.pc = "finished" \/ t.i >= Least(bad))) => state.status = "error"
            /\ (state.status = "error" /\ last.session_id = s /\ last.op = "index_status") =>
                   /\ last.code = 200 /\ last.body.status = "error"
                   /\ last.body.files_indexed = Least(bad) - 1
            /\ (state.status = "error" /\ last.session_id = s /\ last.op = "query") =>
                   last.code = 400

C10_Witness ==
    \E s \in DOMAIN SESSION_STATUS :
        /\ SESSION_STATUS[s].status = "error"
        /\ SESSION_STATUS[s].total_files = 2
        /\ SESSION_STATUS[s].files_indexed = 0
        /\ last.op = "index_status" /\ last.session_id = s

\* C3: an upload that is rejected (no files, too many files, an oversized file, an
\* oversized total, or a file failing validate_pdf_file) leaves SESSION_STATUS and
\* SESSION_RETRIEVERS as they were and schedules no indexing task.
C3_RejectedUploadLeavesNoTrace ==
    [][ (last'.op = "upload" /\ last'.code # 200) =>
            /\ SESSION_STATUS' = SESSION_STATUS
            /\ SESSION_RETRIEVERS' = SESSION_RETRIEVERS
            /\ tasks' = tasks ]_vars

\* a batch of valid files and one invalid file was rejected and no session exists
C3_Witness ==
    /\ last.op = "upload" /\ last.code = 400
    /\ last.detail = <<"d.pdf", " is not a valid PDF">>
    /\ Len(req) = 3 /\ req[1] = FileA /\ req[2] = FileAtLimit /\ req[3] = FileNotPdf
    /\ SESSION_STATUS = <<>> /\ SESSION_RETRIEVERS = <<>> /\ tasks = <<>>

RECURSIVE TotalSize(_)
TotalSize(files) == IF files = <<>> THEN 0 ELSE Head(files).size + TotalSize(Tail(files))

PassesValidation(file) ==
    validate_pdf_file(IF file.filename = "" THEN "file.pdf" ELSE file.filename, file.pdf) = Ok

Acceptable(files) ==
    /\ 1 <= Len(files) /\ Len(files) <= 10
    /\ \A i \in 1..Len(files) : files[i].size <= 50 * 1024 * 1024
    /\ TotalSize(files) <= 100 * 1024 * 1024
    /\ \A i \in 1..Len(files) : PassesValidation(files[i])

\* C9: upload_files accepts a request exactly when it has between 1 and 10 files, each
\* of at most 50 MiB, of at most 100 MiB together, each passing validate_pdf_file; any
\* other request is answered 400.
C9_AcceptsExactlyWithinLimits ==
    last.op = "upload" =>
        /\ last.code = 200 <=> Acceptable(req)
        /\ last.code # 200 => last.code = 400
        /\ last.code = 200 =>
               /\ last.session_id \in DOMAIN SESSION_STATUS
               /\ last.body.totals = [files |-> Len(req), bytes |-> TotalSize(req)]

\* two files of exactly 50 MiB, exactly 100 MiB together, were accepted
C9_Witness ==
    /\ last.op = "upload" /\ last.code = 200
    /\ Len(req) = 2
    /\ req[1].size = 50 * 1024 * 1024 /\ req[2].size = 50 * 1024 * 1024
    /\ last.body.totals.bytes = 100 * 1024 * 1024

StartedCall == health_calls'[Len(health_calls')]

\* C6: a health_check(use_cache=True) that starts less than 30 seconds after the
\* last_check of the result an earlier call has left in the cache returns that result
\* unchanged, sends no probe and leaves the cache alone, whatever the result says; a
\* call that starts 30 seconds or more after it, or with use_cache=False, sends exactly
\* one probe and on its return the cache holds its own new result.
C6_CacheWindow ==
    [][ /\ Len(health_calls') = Len(health_calls) + 1 =>
            IF /\ StartedCall.use_cache
               /\ _health_cache # <<>>
               /\ now - _health_cache[1].last_check < 30
            THEN /\ probes' = probes
                 /\ _health_cache' = _health_cache
                 /\ StartedCall.pc = "returned"
                 /\ StartedCall.result = _health_cache
            ELSE /\ probes' = probes + 1
                 /\ _health_cache' = _health_cache
                 /\ StartedCall.pc = "probing"
        /\ \A call \in 1..Len(health_calls) :
               (health_calls[call].pc = "probing" /\ health_calls'[call].pc = "returned") =>
                   /\ probes' = probes
                   /\ _health_cache' = health_calls'[call].result
                   /\ _health_cache' # <<>>
                   /\ _health_cache'[1].last_check = now
        /\ Len(health_calls') = Len(health_calls) =>
               \A call \in 1..Len(health_calls) :
                   health_calls'[call].pc = health_calls[call].pc => probes' = probes ]_vars

\* a call 29 seconds after an "unavailable" result returned it from the cache
C6_Witness ==
    /\ Len(health_calls) = 2
    /\ health_calls[1].pc = "returned" /\ health_calls[2].pc = "returned"
    /\ health_calls[1].result[1].last_check = 0
    /\ ~health_calls[1].result[1].is_available
    /\ health_calls[2].use_cache /\ health_calls[2].started = 29
    /\ health_calls[2].result = health_calls[1].result
    /\ probes = 1

\* C7: two health_check(use_cache=True) calls made within 30 seconds of each other, the
\* first finding no fresh result in the cache, send exactly one probe between them in
\* every interleaving, the second call starting while the first awaits its probe
\* included.
C7_OneProbeForTwoCalls ==
    (/\ Len(health_calls) = 2
     /\ health_calls[1].use_cache /\ health_calls[2].use_cache
     /\ health_calls[2].started - health_calls[1].started < 30)
        => probes = 1

-----------------------------------------------------------------------------
(* The retriever used directly (retrieval.py:223-338): documents are added *)
(* one at a time, with any metadata the caller gives, and searches are     *)
(* made in between.                                                        *)

\* the documents one retriever is given, and the largest k a search asks for
MaxDocs == 3
MaxK == 2

T_A == <<"a">>
T_B == <<"b">>
T_AaaBC == <<"a", "a", "a", " ", "B", " ", "c">>

DocTexts == {T_A, T_B, T_AaaBC}
\* the (doc_id, chunk_id) pairs the caller labels documents with.  The retriever only
\* compares labels, so a label not used before is always the next of this list.
DocKeys == <<<<"doc1", 0>>, <<"doc1", 1>>, <<"doc2", 0>>>>

UsedKeys(r) == {DocKey(r.vector_index.metadata[i]) : i \in 1..Len(r.vector_index.metadata)}

Q_BC == <<"b", " ", "c">>
Q_BB == <<"b", " ", "B">>
Q_Blank == <<" ">>

SearchQueries == {Q_BC, Q_BB, Q_Blank}

\* retriever.add_document(text, {"doc_id": doc_id, "chunk_id": chunk_id})
AddDocument ==
    \E text \in DocTexts, n \in 1..Len(DocKeys) :
        /\ VectorIndex_size(hybrid_retriever.vector_index) < MaxDocs
        /\ n <= Cardinality(UsedKeys(hybrid_retriever)) + 1
        /\ hybrid_retriever' =
               add_document(hybrid_retriever, text,
                            [doc_id |-> DocKeys[n][1], chunk_id |-> DocKeys[n][2],
                             text |-> <<>>])
        /\ last' = Step("add_document", 0, <<>>, NoSession, <<>>)
        /\ UNCHANGED <<serviceVars, req, healthVars, lib_call>>

\* retriever.search(query, k)
HybridSearch ==
    \E q \in SearchQueries, k \in 1..MaxK :
        /\ last' = Step("search", 0, <<>>, NoSession,
                        [query |-> q, k |-> k,
                         results |-> search(hybrid_retriever, q, k)])
        /\ UNCHANGED <<serviceVars, req, healthVars, libVars>>

\* retriever.keyword_index.search(query, k)
KeywordSearch ==
    \E q \in SearchQueries, k \in 1..MaxK :
        /\ last' = Step("keyword_search", 0, <<>>, NoSession,
                        [query |-> q, k |-> k,
                         results |-> KeywordIndex_search(hybrid_retriever.keyword_index, q, k)])
        /\ UNCHANGED <<serviceVars, req, healthVars, libVars>>

\* the query vectors given to the vector index directly
QueryVectors == {<<0, 0>>, <<2, 0>>}

\* retriever.vector_index.search(query_vector, k)
VectorSearch ==
    \E query_vector \in QueryVectors, k \in 1..MaxK :
        /\ last' = Step("vector_search", 0, <<>>, NoSession,
                        [query_vector |-> query_vector, k |-> k,
                         results |-> VectorIndex_search(hybrid_retriever.vector_index,
                                                        query_vector, k)])
        /\ UNCHANGED <<serviceVars, req, healthVars, libVars>>

InitRetrieval ==
    /\ InitService
    /\ req = <<>>
    /\ InitHealth("ollama")
    /\ InitLib

NextRetrieval == AddDocument \/ HybridSearch \/ KeywordSearch \/ VectorSearch

SpecRetrieval == InitRetrieval /\ [][NextRetrieval]_vars

Searched == last.op = "search"

Keys(results) == [i \in 1..Len(results) |-> DocKey(results[i].metadata)]

\* C11: whatever the retriever holds, whatever the query and the k, the list
\* HybridRetriever.search returns has no two results with the same (doc_id, chunk_id),
\* has its scores in non-increasing order and has at most k elements; on a retriever
\* no document was added to, it is the empty list.
C11_SearchResultList ==
    Searched =>
        LET results == last.body.results
        IN  /\ \A i, j \in 1..Len(results) : Keys(results)[i] = Keys(results)[j] => i = j
            /\ \A i \in 1..(Len(results) - 1) :
                   RatLeq(results[i + 1].score, results[i].score)
            /\ Len(results) <= last.body.k
            /\ VectorIndex_size(hybrid_retriever.vector_index) = 0 => results = <<>>

\* two documents stored under one (doc_id, chunk_id), both hit by both searches, came
\* back as one result
C11_Witness ==
    /\ Searched
    /\ last.body.k = 2
    /\ Len(last.body.results) = 1
    /\ VectorIndex_size(hybrid_retriever.vector_index) = 2
    /\ DocKey(hybrid_retriever.vector_index.metadata[1])
           = DocKey(hybrid_retriever.vector_index.metadata[2])
    /\ Len(KeywordIndex_search(hybrid_retriever.keyword_index, last.body.query, 2)) = 2

\* the hits of the two searches a search(query, k) fuses (retrieval.py:267-271)
SemanticHits ==
    VectorIndex_search(hybrid_retriever.vector_index, embed_text(last.body.query), last.body.k)
KeywordHits ==
    KeywordIndex_search(hybrid_retriever.keyword_index, last.body.query, last.body.k)

HitsAt(hits, key) == {i \in 1..Len(hits) : DocKey(hits[i].metadata) = key}

\* C12: with s = 1/(1+d) for a vector hit at distance d and w the score of a keyword
\* hit, a returned chunk hit by both searches has score 0.7*s + 0.3*w, one hit by the
\* vector search only has 0.7*s and keyword_score 0, one hit by the keyword search
\* only has 0.3*w and semantic_score 0, and a chunk hit by neither is never returned.
C12_FusedScores ==
    Searched =>
        \A r \in 1..Len(last.body.results) :
            LET result == last.body.results[r]
                sem == HitsAt(SemanticHits, DocKey(result.metadata))
                kw == HitsAt(KeywordHits, DocKey(result.metadata))
                s(i) == Rat(1, 1 + SemanticHits[i].score.n)
                w(j) == KeywordHits[j].score
            IN  /\ sem \cup kw # {}
                /\ (sem # {} /\ kw # {}) =>
                       \E i \in sem, j \in kw :
                           /\ RatEq(result.semantic_score, s(i))
                           /\ RatEq(result.keyword_score, w(j))
                           /\ RatEq(result.score,
                                    RatAdd(RatMul(Rat(7, 10), s(i)), RatMul(Rat(3, 10), w(j))))
                /\ (sem # {} /\ kw = {}) =>
                       \E i \in sem :
                           /\ RatEq(result.score, RatMul(Rat(7, 10), s(i)))
                           /\ RatEq(result.semantic_score, s(i))
                           /\ RatEq(result.keyword_score, Rat(0, 1))
                /\ (sem = {} /\ kw # {}) =>
                       \E j \in kw :
                           /\ RatEq(result.score, RatMul(Rat(3, 10), w(j)))
                           /\ RatEq(result.keyword_score, w(j))
                           /\ RatEq(result.semantic_score, Rat(0, 1))

\* a search returned a chunk hit by both searches at distance 0 with one term, score 1,
\* ahead of a chunk only the keyword search hit
C12_Witness ==
    /\ Searched
    /\ Len(last.body.results) = 2
    /\ HitsAt(SemanticHits, DocKey(last.body.results[1].metadata)) # {}
    /\ HitsAt(KeywordHits, DocKey(last.body.results[1].metadata)) # {}
    /\ RatEq(last.body.results[1].score, Rat(1, 1))
    /\ HitsAt(SemanticHits, DocKey(last.body.results[2].metadata)) = {}
    /\ HitsAt(KeywordHits, DocKey(last.body.results[2].metadata)) # {}

\* C13: in every list search returns, a chunk found by one of the two searches only
\* has a fused score no greater than that search's weight: at most 0.7 when only the
\* vector search found it, at most 0.3 when only the keyword search found it.
C13_SingleMethodCapped ==
    Searched =>
        \A r \in 1..Len(last.body.results) :
            LET result == last.body.results[r]
                sem == HitsAt(SemanticHits, DocKey(result.metadata))
                kw == HitsAt(KeywordHits, DocKey(result.metadata))
            IN  /\ (sem # {} /\ kw = {}) => RatLeq(result.score, Rat(7, 10))
                /\ (sem = {} /\ kw # {}) => RatLeq(result.score, Rat(3, 10))

\* C21: VectorIndex.search(q, k) returns exactly min(k, size()) results in order of
\* non-decreasing L2 distance, each the distance of a stored vector to q, and the
\* empty list on an empty index; size() is the number of add calls made so far, no
\* step removing or replacing an entry.
C21_VectorSearchClamped ==
    [][ /\ last'.op = "vector_search" =>
            LET results == last'.body.results
                size == VectorIndex_size(hybrid_retriever.vector_index)
            IN  /\ Len(results) = Min(last'.body.k, size)
                /\ size = 0 => results = <<>>
                /\ \A i \in 1..(Len(results) - 1) :
                       RatLeq(results[i].score, results[i + 1].score)
                /\ \A i \in 1..Len(results) :
                       \E j \in 1..size :
                           /\ results[i].metadata = hybrid_retriever.vector_index.metadata[j]
                           /\ results[i].score =
                                  Rat(L2Distance(hybrid_retriever.vector_index.vectors[j],
                                                 last'.body.query_vector), 1)
        /\ VectorIndex_size(hybrid_retriever'.vector_index) =
               VectorIndex_size(hybrid_retriever.vector_index)
                   + (IF last'.op = "add_document" THEN 1 ELSE 0)
        /\ \A j \in 1..VectorIndex_size(hybrid_retriever.vector_index) :
               /\ hybrid_retriever'.vector_index.vectors[j] = hybrid_retriever.vector_index.vectors[j]
               /\ hybrid_retriever'.vector_index.metadata[j] = hybrid_retriever.vector_index.metadata[j]
      ]_vars

\* three vectors stored and two asked for: the two nearest came back, the nearer first,
\* neither of them the vector added first
C21_Witness ==
    /\ last.op = "vector_search"
    /\ last.body.k = 2
    /\ VectorIndex_size(hybrid_retriever.vector_index) = 3
    /\ Len(last.body.results) = 2
    /\ RatLess(last.body.results[1].score, last.body.results[2].score)
    /\ hybrid_retriever.vector_index.metadata[1] \notin
           {last.body.results[1].metadata, last.body.results[2].metadata}

\* the query terms, each once, that occur in the lower-cased text
DistinctTermsIn(q, text) ==
    {term \in {split(lower(q))[t] : t \in 1..Len(split(lower(q)))} :
        Contains(lower(text), term)}

\* C14: the score KeywordIndex.search gives a document is the number of distinct terms
\* of the lower-cased, whitespace-split query that occur as substrings of the
\* lower-cased document text: a term written several times in the query counts once,
\* and a term occurring several times in the document counts once.
C14_DistinctTermsCounted ==
    last.op = "keyword_search" =>
        \A r \in 1..Len(last.body.results) :
            RatEq(last.body.results[r].score,
                  Rat(Cardinality(DistinctTermsIn(last.body.query,
                                                  last.body.results[r].metadata.text)), 1))

\* the query just answered got its answer from generate_text: the backend was reached,
\* healthy, and returned its text
AnsweredByBackend ==
    /\ last.op = "query"
    /\ last.code = 200
    /\ last.body.retrieved >= 1
    /\ last.body.calls # <<>>
    /\ last.body.calls[Len(last.body.calls)] = "generate_text"

\* C15: when generate_text returns the text T for a query on a done session with at
\* least one retrieved result, the answer of the response is T exactly, with nothing
\* put before or after it.
C15_AnswerIsGeneratedText ==
    AnsweredByBackend => last.body.answer = last.body.backend.generate.text

-----------------------------------------------------------------------------
(* The query handler on a session set up as tests/test_query.py:9-27 and   *)
(* tests/test_query_with_openai.py:20-49 set one up: the status written as *)
(* "done" and the retriever filled by add_document, chunk after chunk of   *)
(* one file.                                                               *)

\* the chunks the session's retriever is given
MaxChunks == 4

ChunkTexts == {T_AnnPolicy, T_BobPerson}

InitQuery ==
    /\ SESSION_STATUS =
           <<[status |-> "done", total_files |-> 1, files_indexed |-> 1, error |-> NoError]>>
    /\ SESSION_RETRIEVERS = <<NewHybridRetriever>>
    /\ tasks = <<>>
    /\ last = Step("start", 0, <<>>, NoSession, <<>>)
    /\ req = <<>>
    /\ InitHealth("ollama")
    /\ InitLib

\* retriever.add_document(text, {"doc_id": ..., "chunk_id": ..., "page": ..., "sentenceSpan": ...})
AddChunk ==
    \E text \in ChunkTexts :
        LET chunk_idx == VectorIndex_size(SESSION_RETRIEVERS[1].vector_index)
        IN  /\ chunk_idx < MaxChunks
            /\ SESSION_RETRIEVERS' =
                   [SESSION_RETRIEVERS EXCEPT
                       ![1] = add_document(@, text, ChunkMetadata("a.pdf", chunk_idx, text))]
            /\ last' = Step("add_document", 0, <<>>, 1, <<>>)
            /\ UNCHANGED <<SESSION_STATUS, tasks, req, healthVars, libVars>>

NextQuery == AddChunk \/ Query

SpecQuery == InitQuery /\ [][NextQuery]_vars

\* C16: a successful query whose context set has n entries returns exactly n
\* citations, n <= 3, in the order of the context set, the i-th with id "citation_i"
\* and the file (doc_id), page and sentenceSpan of the i-th entry; a query that
\* retrieves nothing is answered "Not found in your files." with no citations.
C16_CitationPerContextEntry ==
    (last.op = "query" /\ last.code = 200) =>
        LET context == last.body.context
            citations == last.body.citations
        IN  /\ Len(citations) = Len(context)
            /\ Len(context) <= 3
            /\ Len(context) = Min(3, last.body.retrieved)
            /\ \A i \in 1..Len(citations) :
                   /\ citations[i].id = <<"citation_", i>>
                   /\ citations[i].file = context[i].metadata.doc_id
                   /\ citations[i].page = context[i].metadata.page
                   /\ citations[i].sentenceSpan = context[i].metadata.sentenceSpan
            /\ last.body.retrieved = 0 =>
                   last.body.answer = S_NotFound /\ citations = <<>>

\* four chunks were retrieved and the first three of them cited
C16_Witness ==
    /\ last.op = "query" /\ last.code = 200
    /\ last.body.retrieved = 4
    /\ Len(last.body.citations) = 3
    /\ last.body.citations[3].id = <<"citation_", 3>>
    /\ last.body.citations[3].file = "a.pdf"

-----------------------------------------------------------------------------
(* chunk_text called directly (retrieval.py:21-67, tests/test_chunking.py) *)

\* the words of the longest text, and the largest max_tokens
MaxWords == 7
MaxTokens == 4

Letters == <<"a", "b", "c", "d", "e", "f", "g", "h", "i", "j">>

RECURSIVE WordsText(_)
\* n one-letter words, all different, with single spaces between them
WordsText(n) ==
    IF n = 0 THEN <<>>
    ELSE IF n = 1 THEN <<Letters[1]>>
    ELSE WordsText(n - 1) \o <<" ", Letters[n]>>

\* overlap_pct in percent: 0 <= overlap_pct < 1
OverlapPcts == {0, 15, 50, 75, 99}

ChunkCalls ==
    { [text |-> text, max_tokens |-> max_tokens, overlap_pct |-> overlap_pct] :
        text \in {WordsText(n) : n \in 0..MaxWords} \cup {T_Blank},
        max_tokens \in 1..MaxTokens,
        overlap_pct \in OverlapPcts }

InitChunking ==
    /\ InitService
    /\ req = <<>>
    /\ InitHealth("ollama")
    /\ hybrid_retriever = NewHybridRetriever
    /\ lib_call \in ChunkCalls

\* chunk_text(text, max_tokens, overlap_pct) returns
ChunkText ==
    /\ last.op = "start"
    /\ last' = Step("chunk_text", 0, <<>>, NoSession,
                    chunk_text(lib_call.text, lib_call.max_tokens, lib_call.overlap_pct))
    /\ UNCHANGED <<serviceVars, req, healthVars, libVars>>

NextChunking == ChunkText

SpecChunking == InitChunking /\ [][NextChunking]_vars

Chunked == last.op = "chunk_text"

\* the call split its text: the text has more tokens than max_tokens
WasSplit == Chunked /\ Len(Encode(lib_call.text)) > lib_call.max_tokens

\* the tokens from position start (counted from 0) on, at most max_tokens of them
TokenWindow(start) ==
    SubSeq(Encode(lib_call.text), start + 1,
           Min(start + lib_call.max_tokens, Len(Encode(lib_call.text))))

\* floor(max_tokens * overlap_pct), the percent being a whole number
FloorOverlap == (lib_call.max_tokens * lib_call.overlap_pct) \div 100

\* C19: for a non-empty text and max_tokens >= 1 no chunk chunk_text returns has a
\* token_count above max_tokens; when the text is split, every chunk but the last has
\* token_count exactly max_tokens, and the token_count of each chunk is the number of
\* tokens its text decodes from.
C19_ChunkWithinMaxTokens ==
    (Chunked /\ lib_call.text # <<>>) =>
        LET chunks == last.body
        IN  /\ \A i \in 1..Len(chunks) : chunks[i].token_count <= lib_call.max_tokens
            /\ WasSplit =>
                   /\ \A i \in 1..(Len(chunks) - 1) :
                          chunks[i].token_count = lib_call.max_tokens
                   /\ \A i \in 1..Len(chunks) :
                          \E start \in 0..Len(Encode(lib_call.text)) :
                              /\ chunks[i].text = Decode(TokenWindow(start))
                              /\ chunks[i].token_count = Len(TokenWindow(start))
            /\ ~WasSplit =>
                   \A i \in 1..Len(chunks) :
                       chunks[i].token_count = Len(Encode(chunks[i].text))

\* seven tokens cut with max_tokens 3 and one token of overlap: 3, 3 and 3 tokens
C19_Witness ==
    /\ Chunked
    /\ lib_call.text = WordsText(7) /\ lib_call.max_tokens = 3 /\ lib_call.overlap_pct = 50
    /\ Len(last.body) = 3
    /\ last.body[3].token_count = 3

-----------------------------------------------------------------------------
(* Health values and the health endpoints                                  *)

\* what one request to a health endpoint meets: get_*_client() or health_check() may
\* raise text, else the probe, if one is sent, comes back with response
E_ServiceUnavailable == <<"Service", "unavailable">>
E_NetworkError == <<"Network", "error">>

EndpointOutcomes(c) ==
    { [raises |-> at, text |-> e, response |-> "none"] :
        at \in {"get_client", "health_check"}, e \in {E_ServiceUnavailable, E_NetworkError} }
    \cup { [raises |-> "nothing", text |-> <<>>, response |-> r] : r \in ProbeResponses(c) }

\* `await client.health_check()` run to its return: the health it returns
ReturnedHealth(outcome) ==
    IF CacheFresh(_health_cache, now) THEN _health_cache[1]
    ELSE HealthOf(client, outcome.response, now)

\* the effect of that call on the client
health_check_completed(outcome) ==
    /\ health_calls' =
           Append(health_calls,
                  HealthCall(TRUE, now, _health_cache, "returned", <<ReturnedHealth(outcome)>>))
    /\ IF CacheFresh(_health_cache, now)
       THEN UNCHANGED <<_health_cache, probes>>
       ELSE _health_cache' = <<ReturnedHealth(outcome)>> /\ probes' = probes + 1
    /\ UNCHANGED <<client, now>>

EndpointStep(op, code, response, outcome) ==
    Step(op, code, <<>>, NoSession, [response |-> response, outcome |-> outcome])

\* mutant: the handler has no except branch, the framework answers 500
ollama_health_failed_Propagates(outcome) ==
    EndpointStep("ollama_health", 500, <<>>, outcome)

\* the except branch of ollama_health (main.py:577-585)
ollama_health_failed(outcome) ==
    EndpointStep("ollama_health", 200,
                 [status |-> "error", ollama_available |-> FALSE,
                  error_message |-> outcome.text, last_check |-> <<>>],
                 outcome)

\* GET /fastapi/ollama/health (main.py:558-585); models_loaded and
\* target_model_available are left out of the body
ollama_health(outcome) ==
    IF outcome.raises # "nothing"
    THEN last' = ollama_health_failed(outcome) /\ UNCHANGED healthVars
    ELSE /\ health_check_completed(outcome)
         /\ last' = EndpointStep("ollama_health", 200,
                                 [status |-> IF ReturnedHealth(outcome).is_healthy
                                             THEN "healthy" ELSE "unhealthy",
                                  ollama_available |-> ReturnedHealth(outcome).is_available,
                                  error_message |-> ReturnedHealth(outcome).error_message,
                                  last_check |-> <<ReturnedHealth(outcome).last_check>>],
                                 outcome)

\* GET /fastapi/openai/health: the hosted-API client's Health reshaped the same way,
\* an exception reported as status "error" with its text
openai_health(outcome) ==
    IF outcome.raises # "nothing"
    THEN /\ last' = EndpointStep("openai_health", 200,
                                 [status |-> "error", api_available |-> FALSE,
                                  error_message |-> outcome.text],
                                 outcome)
         /\ UNCHANGED healthVars
    ELSE /\ health_check_completed(outcome)
         /\ last' = EndpointStep("openai_health", 200,
                                 [status |-> IF ReturnedHealth(outcome).is_healthy
                                             THEN "healthy" ELSE "unhealthy",
                                  api_available |-> ReturnedHealth(outcome).is_available,
                                  error_message |-> ReturnedHealth(outcome).error_message],
                                 outcome)

HealthEndpoint ==
    \E outcome \in EndpointOutcomes(client) :
        /\ outcome.raises = "nothing" => Len(health_calls) < MaxCalls
        /\ IF client = "ollama" THEN ollama_health(outcome) ELSE openai_health(outcome)
        /\ UNCHANGED <<serviceVars, req, libVars>>

NextHealthEndpoints == HealthEndpoint \/ Tick

SpecHealthEndpoints == InitHealthChecks /\ [][NextHealthEndpoints]_vars

EndpointAnswered == last.op \in {"ollama_health", "openai_health"}

\* the availability flag of a health endpoint's body
AvailableFlag ==
    IF last.op = "ollama_health" THEN last.body.response.ollama_available
    ELSE last.body.response.api_available

C17_NoKeyInErrorMessage ==
    client = "openai" =>
        \A c \in 1..Len(health_calls) :
            health_calls[c].pc = "returned" =>
                \A i \in 1..Len(health_calls[c].result[1].error_message) :
                    health_calls[c].result[1].error_message[i] # api_key

\* ---------------------------------------------------------------------------
\* Build and version reporter: get_git_info (main.py:111-186)
\* ---------------------------------------------------------------------------

\* str.strip(): the text without its leading and trailing whitespace
RECURSIVE lstrip(_)
lstrip(text) ==
    IF text = <<>> THEN <<>>
    ELSE IF IsSpace(Head(text)) THEN lstrip(Tail(text))
    ELSE text

RECURSIVE rstrip(_)
rstrip(text) ==
    IF text = <<>> THEN <<>>
    ELSE IF IsSpace(text[Len(text)]) THEN rstrip(SubSeq(text, 1, Len(text) - 1))
    ELSE text

strip(text) == rstrip(lstrip(text))

S_unknown == <<"u", "n", "k", "n", "o", "w", "n">>

\* the fields of git_info, in the order their commands are run
GitFields == <<"branch", "commit", "commit_full", "commit_date", "uncommitted_changes">>

GitDefaults ==
    [branch |-> S_unknown, commit |-> S_unknown, commit_full |-> S_unknown,
     commit_date |-> S_unknown, uncommitted_changes |-> FALSE]

\* what git writes on success for each command
GitStdout ==
    [branch |-> <<"m", "a", "i", "n", "\n">>,
     commit |-> <<"a", "b", "c", "1", "2", "3", "4", "\n">>,
     commit_full |-> <<"a", "b", "c", "1", "2", "3", "4", "d", "e", "f", "\n">>,
     commit_date |-> <<"2", "0", "2", "5", "-", "0", "1", "-", "0", "1", "\n">>,
     uncommitted_changes |-> <<" ", "M", " ", "f", "\n">>]

\* the outcomes of one subprocess.run(..., timeout=1, check=False): a completed
\* process with its return code and stdout, or TimeoutExpired raised
Completed(returncode, stdout) == [raises |-> FALSE, returncode |-> returncode, stdout |-> stdout]
TimeoutExpired == [raises |-> TRUE, returncode |-> -1, stdout |-> <<>>]

RunOutcomes(field) ==
    {Completed(0, GitStdout[field]), Completed(128, <<>>), TimeoutExpired}
        \cup (IF field = "uncommitted_changes" THEN {Completed(0, <<>>)} ELSE {})

GitRuns ==
    {runs \in [1..Len(GitFields) -> UNION {RunOutcomes(GitFields[i]) : i \in 1..Len(GitFields)}] :
        \A i \in 1..Len(GitFields) : runs[i] \in RunOutcomes(GitFields[i])}

ReturnedZero_Always(result) == TRUE

ReturnedZero(result) == result.returncode = 0

\* the value a field is assigned from a completed command's stdout
FieldValue(field, stdout) ==
    IF field = "uncommitted_changes" THEN strip(stdout) # <<>> ELSE strip(stdout)

\* the body of the try block from command i on: the commands run one after another,
\* an exception raised by subprocess.run leaves the block for the except clause
RECURSIVE RunGitFrom(_, _, _, _)
RunGitFrom(i, runs, git_info, executed) ==
    IF i > Len(GitFields) THEN [git_info |-> git_info, executed |-> executed]
    ELSE LET field == GitFields[i]
             result == runs[i]
         IN  IF result.raises
             THEN [git_info |-> git_info, executed |-> Append(executed, field)]
             ELSE RunGitFrom(i + 1, runs,
                             IF ReturnedZero(result)
                             THEN [git_info EXCEPT ![field] = FieldValue(field, result.stdout)]
                             ELSE git_info,
                             Append(executed, field))

get_git_info(runs) == RunGitFrom(1, runs, GitDefaults, <<>>)

InitGitInfo ==
    /\ InitService
    /\ req = <<>>
    /\ InitHealth("ollama")
    /\ hybrid_retriever = NewHybridRetriever
    /\ lib_call \in GitRuns

GetGitInfo ==
    /\ last.op = "start"
    /\ last' = Step("get_git_info", 0, <<>>, NoSession, get_git_info(lib_call))
    /\ UNCHANGED <<serviceVars, req, healthVars, libVars>>

NextGitInfo == GetGitInfo

SpecGitInfo == InitGitInfo /\ [][NextGitInfo]_vars

GotGitInfo == last.op = "get_git_info"

\* the position of the first command that raised, one past the last command if none did
FirstRaise(runs) ==
    IF \E i \in 1..Len(GitFields) : runs[i].raises
    THEN CHOOSE i \in 1..Len(GitFields) :
             runs[i].raises /\ \A j \in 1..(i - 1) : ~runs[j].raises
    ELSE Len(GitFields) + 1

\* the value command i's field has when the command's own result decides it
OwnResult(runs, i) ==
    IF ~runs[i].raises /\ runs[i].returncode = 0
    THEN FieldValue(GitFields[i], runs[i].stdout)
    ELSE GitDefaults[GitFields[i]]

\* C22 as stated: the five git commands are independent; when one of them exits
\* non-zero or times out, only its own field keeps the default and every other
\* command, the later ones included, is still executed.
C22_GitCommandsIndependent ==
    GotGitInfo =>
        /\ last.body.executed = GitFields
        /\ \A i \in 1..Len(GitFields) :
               last.body.git_info[GitFields[i]] = OwnResult(lib_call, i)

\* C22, amended: a command that exits non-zero leaves only its own field at the
\* default and the commands after it still run; a command that times out ends the
\* gathering: no later command is executed, the fields of the timed-out command and
\* of all later ones keep their defaults, and the fields set before it keep the
\* values their commands returned.
C22_GitFieldsUntilFirstRaise ==
    GotGitInfo =>
        LET first == FirstRaise(lib_call)
        IN  /\ last.body.executed = SubSeq(GitFields, 1, Min(first, Len(GitFields)))
            /\ \A i \in 1..Len(GitFields) :
                   last.body.git_info[GitFields[i]] =
                       IF i < first THEN OwnResult(lib_call, i) ELSE GitDefaults[GitFields[i]]

\* the branch command succeeded, the short-commit command exited non-zero, the
\* full-commit command succeeded and the date command timed out while the status
\* command would have reported changes
C22_Witness ==
    /\ GotGitInfo
    /\ ~lib_call[1].raises /\ lib_call[1].returncode = 0
    /\ ~lib_call[2].raises /\ lib_call[2].returncode # 0
    /\ ~lib_call[3].raises /\ lib_call[3].returncode = 0
    /\ lib_call[4].raises
    /\ lib_call[5] = Completed(0, GitStdout.uncommitted_changes)
    /\ last.body.git_info.branch = <<"m", "a", "i", "n">>
    /\ last.body.git_info.commit = S_unknown
    /\ last.body.git_info.commit_full = <<"a", "b", "c", "1", "2", "3", "4", "d", "e", "f">>
    /\ last.body.git_info.uncommitted_changes = FALSE
    /\ Len(last.body.executed) = 4

\* ---------------------------------------------------------------------------
\* Background indexing of files of several chunks
\* ---------------------------------------------------------------------------

InitIndexing ==
    /\ InitService
    /\ req \in IndexingUploads
    /\ InitHealth("ollama")
    /\ InitLib

NextIndexingLong == UploadRequest \/ Task \/ Poll

SpecIndexing == InitIndexing /\ [][NextIndexingLong]_vars

\* what identifies a stored chunk: its file, its number within the file and its text
ChunkKey(entry) == <<entry.doc_id, entry.chunk_id, entry.text>>

\* the chunks of one file in chunk order, numbered from 0
FileEntries(file) ==
    [c \in 1..Len(FileChunks[file]) |-> <<file.filename, c - 1, FileChunks[file][c].text>>]

RECURSIVE EntriesOfFirst(_, _)
\* the chunks of the first j files, file after file in upload order
EntriesOfFirst(files, j) ==
    IF j = 0 THEN <<>> ELSE EntriesOfFirst(files, j - 1) \o FileEntries(files[j])

\* the chunks a retriever holds, in the order they were added
AddedKeys(retriever) ==
    [i \in 1..Len(retriever.vector_index.metadata) |-> ChunkKey(retriever.vector_index.metadata[i])]

IsPrefix(p, q) == Len(p) <= Len(q) /\ SubSeq(q, 1, Len(p)) = p

\* session s holds exactly the chunks of its first files_indexed files and, after
\* them, at most a part of the next file, in order
InUploadOrder(files, status, retrievers, s) ==
    LET j == status[s].files_indexed
        whole == EntriesOfFirst(files, j)
        added == AddedKeys(retrievers[s])
    IN  /\ j \in 0..Len(files)
        /\ IsPrefix(whole, added)
        /\ added # whole =>
               /\ j < Len(files)
               /\ IsPrefix(added, whole \o FileEntries(files[j + 1]))
               /\ added # whole \o FileEntries(files[j + 1])

\* C23: within a session's background task the files are processed in upload order
\* and a file's chunks are added in chunk order with chunk_id 0, 1, 2, ...;
\* files_indexed changes by +1 only, and it is j exactly when the retriever holds all
\* chunks of the first j files and of later files at most a part of the file in progress.
C23_IndexedInUploadOrder ==
    [][\A s \in DOMAIN SESSION_STATUS' :
           /\ InUploadOrder(tasks'[s].file_buffers, SESSION_STATUS', SESSION_RETRIEVERS', s)
           /\ s \in DOMAIN SESSION_STATUS =>
                  /\ SESSION_STATUS'[s].files_indexed \in
                         {SESSION_STATUS[s].files_indexed, SESSION_STATUS[s].files_indexed + 1}
                  /\ IsPrefix(AddedKeys(SESSION_RETRIEVERS[s]), AddedKeys(SESSION_RETRIEVERS'[s]))]_vars

\* a session of three files, the second of three chunks, with all five chunks indexed
\* and the fourth of them the last chunk, chunk_id 2, of the second file
C23_Witness ==
    \E s \in DOMAIN SESSION_STATUS :
        /\ Len(UploadedFiles(s)) = 3
        /\ SESSION_STATUS[s].files_indexed = 3
        /\ Len(AddedKeys(SESSION_RETRIEVERS[s])) = 5
        /\ AddedKeys(SESSION_RETRIEVERS[s])[4][1] = "l.pdf"
        /\ AddedKeys(SESSION_RETRIEVERS[s])[4][2] = 2

\* a query that got as far as searching the session's retriever
RanRetrieval(step) == step.op = "query" /\ step.body.searches > 0

\* C24: no query observes a partially indexed retriever: when a query on session S
\* runs retrieval, the retriever of S holds all chunks of all files uploaded in S,
\* the indexing task of S has ended, and from the moment S can be queried nothing
\* is added to its retriever, whatever the interleaving of queries and tasks.
C24_QueriesSeeCompleteIndex ==
    [][/\ RanRetrieval(last') =>
              LET s == last'.session_id
                  files == tasks'[s].file_buffers
              IN  /\ AddedKeys(SESSION_RETRIEVERS'[s]) = EntriesOfFirst(files, Len(files))
                  /\ tasks'[s].pc = "finished"
       /\ \A s \in DOMAIN SESSION_STATUS :
              SessionReady(SESSION_STATUS[s]) => SESSION_RETRIEVERS'[s] = SESSION_RETRIEVERS[s]]_vars

\* a query searched the two indexed files of one session while the task of the
\* other session had indexed the first of its two files
C24_Witness ==
    /\ RanRetrieval(last)
    /\ Len(tasks[last.session_id].file_buffers) = 2
    /\ Len(AddedKeys(SESSION_RETRIEVERS[last.session_id])) = 2
    /\ \E t \in DOMAIN SESSION_STATUS :
           /\ t # last.session_id
           /\ SESSION_STATUS[t].status = "indexing"
           /\ SESSION_STATUS[t].total_files = 2
           /\ SESSION_STATUS[t].files_indexed = 1

\* the number of files of session s all of whose chunks, and those of the files
\* before them, are in the retriever
FullyProcessed(s) ==
    Cardinality({j \in 1..Len(UploadedFiles(s)) :
                    IsPrefix(EntriesOfFirst(UploadedFiles(s), j), AddedKeys(SESSION_RETRIEVERS[s]))})

\* C25: a session whose status is "done" has files_indexed = total_files; a session
\* whose status is "indexing", or "error" set by the background task, has
\* files_indexed equal to the number of files fully processed so far.
C25_FilesIndexedCountsProcessed ==
    \A s \in DOMAIN SESSION_STATUS :
        /\ SESSION_STATUS[s].status = "done" =>
               SESSION_STATUS[s].files_indexed = SESSION_STATUS[s].total_files
        /\ SESSION_STATUS[s].status \in {"indexing", "error"} =>
               SESSION_STATUS[s].files_indexed = FullyProcessed(s)

\* a task raised inside the second of three files after adding that file's first
\* chunk: the session is in "error" with one file counted and two chunks stored
C25_Witness ==
    \E s \in DOMAIN SESSION_STATUS :
        /\ SESSION_STATUS[s].status = "error"
        /\ SESSION_STATUS[s].total_files = 3
        /\ SESSION_STATUS[s].files_indexed = 1
        /\ Len(AddedKeys(SESSION_RETRIEVERS[s])) = 2

Terminal(state) == state.status \in {"done", "error"}

\* C26: a session's status only moves from "indexing" to "done" or from "indexing"
\* to "error"; "done" and "error" are terminal: status, files_indexed and total_files
\* never change again; total_files never changes after the upload.
C26_StatusTransitions ==
    [][\A s \in DOMAIN SESSION_STATUS :
           /\ s \in DOMAIN SESSION_STATUS'
           /\ SESSION_STATUS'[s].total_files = SESSION_STATUS[s].total_files
           /\ SESSION_STATUS'[s].status # SESSION_STATUS[s].status =>
                  /\ SESSION_STATUS[s].status = "indexing"
                  /\ SESSION_STATUS'[s].status \in {"done", "error"}
           /\ Terminal(SESSION_STATUS[s]) =>
                  /\ SESSION_STATUS'[s].status = SESSION_STATUS[s].status
                  /\ SESSION_STATUS'[s].files_indexed = SESSION_STATUS[s].files_indexed]_vars

\* one session ended in "error" inside its second file, and the task of the other
\* session has run since and has just ended in "error" too
C26_Witness ==
    /\ last.op = "task"
    /\ Known(last.session_id) /\ SESSION_STATUS[last.session_id].status = "error"
    /\ \E s \in DOMAIN SESSION_STATUS :
           /\ s # last.session_id
           /\ SESSION_STATUS[s].status = "error"
           /\ SESSION_STATUS[s].files_indexed = 1
           /\ SESSION_STATUS[s].total_files = 3

\* the positions at which the request just answered invoked f
CallsOf(f) == {i \in 1..Len(last.body.calls) : last.body.calls[i] = f}

Invoked(f) == CallsOf(f) # {}

\* the health check the request made returned, reporting the backend healthy and
\* its model available
ReportedReady ==
    /\ Invoked("health_check")
    /\ ~last.body.backend.health.raises
    /\ last.body.backend.health.is_healthy
    /\ last.body.backend.health.is_available

\* C27: in query the fallback answerer is invoked only when the health check reported
\* the backend not healthy or not available, or when obtaining the client, the health
\* check or generate_text raised; generate_text is invoked only after a health check of
\* the same request reported the backend both healthy and available.
C27_FallbackAndGenerateGuards ==
    last.op = "query" =>
        /\ Invoked("fallback") =>
               \/ Invoked("get_ollama_client") /\ last.body.backend.client = "raises"
               \/ Invoked("health_check") /\ last.body.backend.health.raises
               \/ /\ Invoked("health_check") /\ ~last.body.backend.health.raises
                  /\ ~last.body.backend.health.is_healthy \/ ~last.body.backend.health.is_available
               \/ Invoked("generate_text") /\ last.body.backend.generate.raises
        /\ Invoked("generate_text") =>
               /\ ReportedReady
               /\ \A g \in CallsOf("generate_text") : \E h \in CallsOf("health_check") : h < g

\* the health check reported the service up and the model missing: the fallback
\* answered and generate_text was not invoked
C27_Witness ==
    /\ last.op = "query" /\ last.code = 200
    /\ last.body.backend.health = ModelMissing
    /\ Invoked("fallback")
    /\ ~Invoked("generate_text")
    /\ last.body.retrieved >= 1

\* ---------------------------------------------------------------------------
\* The query handler on a session filled with chunks of two files
\* ---------------------------------------------------------------------------

\* retriever.add_document for the next chunk of a second file
AddChunkOfSecondFile ==
    \E text \in ChunkTexts :
        LET chunk_idx == VectorIndex_size(SESSION_RETRIEVERS[1].vector_index)
        IN  /\ chunk_idx < MaxChunks
            /\ SESSION_RETRIEVERS' =
                   [SESSION_RETRIEVERS EXCEPT
                       ![1] = add_document(@, text, ChunkMetadata("b.pdf", chunk_idx, text))]
            /\ last' = Step("add_document", 0, <<>>, 1, <<>>)
            /\ UNCHANGED <<SESSION_STATUS, tasks, req, healthVars, libVars>>

NextQueryDocs == AddChunk \/ AddChunkOfSecondFile \/ Query

SpecQueryDocs == InitQuery /\ [][NextQueryDocs]_vars

RECURSIVE Ascending(_)
\* the numbers of a finite set, smallest first
Ascending(S) ==
    IF S = {} THEN <<>>
    ELSE LET least == CHOOSE i \in S : \A j \in S : i <= j
         IN  <<least>> \o Ascending(S \ {least})

\* The document-diversity selection pass as the specification describes it.
\* the highest-scoring candidate of the document of candidate i, the first of equals
BestOfDoc(candidates, i) ==
    LET same == {j \in 1..Len(candidates) :
                    candidates[j].metadata.doc_id = candidates[i].metadata.doc_id}
    IN  CHOOSE b \in same :
            \A j \in same :
                /\ RatLeq(candidates[j].score, candidates[b].score)
                /\ RatEq(candidates[j].score, candidates[b].score) => b <= j

\* each document's best chunk, the documents in the order the list first names them
BestPerDoc(candidates) ==
    LET firsts == Ascending({i \in 1..Len(candidates) :
                                \A j \in 1..(i - 1) :
                                    candidates[j].metadata.doc_id # candidates[i].metadata.doc_id})
    IN  [d \in 1..Len(firsts) |-> BestOfDoc(candidates, firsts[d])]

\* the selection is filled up to 5 chunks and its best 3 are kept
DiversitySelect(candidates) ==
    LET best == BestPerDoc(candidates)
        others == Ascending({i \in 1..Len(candidates) : \A d \in 1..Len(best) : best[d] # i})
        fill == SortDesc(others, [o \in 1..Len(others) |-> candidates[others[o]].score])
        selection == Take(best \o fill, 5)
        sorted == SortDesc(selection, [x \in 1..Len(selection) |-> candidates[selection[x]].score])
    IN  [x \in 1..Min(3, Len(sorted)) |-> candidates[sorted[x]]]

\* the candidate list the handler got from the retriever for a request
CandidatesOf(request) ==
    Retrieve(SESSION_RETRIEVERS[request.session_id], request.question,
             request.conversation_history).results

\* C28: for every candidate list the retriever returns to query, the chunks used as
\* prompt context and cited are the diversity selection applied to that list: each
\* document's best chunk first, filled up to 5 with the next best not yet selected,
\* re-sorted by score descending with selection order kept among equal scores, top 3.
C28_ContextIsDiversitySelection ==
    (last.op = "query" /\ last.code = 200 /\ last.body.retrieved >= 1) =>
        \A request \in QueryRequests :
            (request.session_id = last.session_id /\ last \in QueryResponses(request)) =>
                LET selected == DiversitySelect(CandidatesOf(request))
                IN  /\ last.body.context = selected
                    /\ Len(last.body.citations) = Len(selected)
                    /\ \A i \in 1..Len(selected) :
                           last.body.citations[i].file = selected[i].metadata.doc_id

\* ---------------------------------------------------------------------------
\* Local model bootstrapper: initialize_ollama (ollama_init.py:16-103).  A run
\* is [pc, attempt, verify_attempt, ready, tags, slept, health_checks, health,
\* pulls, models, returned]: where the coroutine stands, its loop counters,
\* whether a poll saw HTTP 200, the requests it has made, the seconds it has
\* slept, what the last health check reported, and <<value>> once it returned.
\* ---------------------------------------------------------------------------

max_attempts == 30
VERIFY_ATTEMPTS == 6

NewRun ==
    [pc |-> "poll", attempt |-> 1, verify_attempt |-> 0, ready |-> FALSE, tags |-> 0,
     slept |-> 0, health_checks |-> 0, health |-> "none", pulls |-> 0, models |-> 0,
     returned |-> <<>>]

\* what the service can answer to the request made at pc
RunOutcomesAt(pc) ==
    CASE pc = "poll" -> {"200", "503", "raises"}
      [] pc = "check" -> {"healthy", "unhealthy"}
      [] pc = "pull" -> {"200", "500", "raises"}
      [] pc = "verify" -> {"healthy", "unhealthy"}
      [] pc = "models" -> {"returns", "empty"}
      [] OTHER -> {}

Returns(run, value) == [run EXCEPT !.pc = "returned", !.returned = <<value>>]

\* a poll answered with a status other than 200 (ollama_init.py:34-36): nothing is
\* done, the for loop goes on to the next attempt and, after the last, ends
PollNotReady(run) ==
    IF run.attempt = max_attempts
    THEN [run EXCEPT !.pc = "check"]
    ELSE [run EXCEPT !.attempt = @ + 1]

\* one attempt of the wait loop (ollama_init.py:30-42)
Poll_step(run, outcome) ==
    LET polled == [run EXCEPT !.tags = @ + 1]
    IN  CASE outcome = "200" -> [polled EXCEPT !.ready = TRUE, !.pc = "check"]
          [] outcome = "503" -> PollNotReady(polled)
          [] outcome = "raises" ->
                 IF run.attempt = max_attempts
                 THEN Returns(polled, FALSE)
                 ELSE [polled EXCEPT !.attempt = @ + 1, !.slept = @ + 10]

\* mutant: the model is pulled whatever the health check reported
AfterFirstCheck_AlwaysPull(checked) == [checked EXCEPT !.pc = "pull"]

\* ollama_init.py:50-54: healthy returns True, otherwise the model is pulled
AfterFirstCheck(checked) ==
    IF checked.health = "healthy" THEN Returns(checked, TRUE) ELSE [checked EXCEPT !.pc = "pull"]

\* the health check before the pull (ollama_init.py:46-52).  OllamaClient.health_check
\* catches every exception of its probe and reports it as a health that is not healthy
\* (ollama_client.py:114-151), so the check reports and never raises
Check_step(run, outcome) ==
    AfterFirstCheck([run EXCEPT !.health_checks = @ + 1, !.health = outcome])

\* mutant: an exception of the pull request leaves initialize_ollama
Pull_step_Propagates(run, outcome) ==
    IF outcome = "raises"
    THEN [run EXCEPT !.pulls = @ + 1, !.pc = "raised"]
    ELSE [run EXCEPT !.pulls = @ + 1, !.slept = @ + 5, !.pc = "verify", !.verify_attempt = 0]

\* the pull request and the sleep after it (ollama_init.py:59-76); an exception of the
\* request is caught by the handler at 98-100
Pull_step(run, outcome) ==
    IF outcome = "raises"
    THEN Returns([run EXCEPT !.pulls = @ + 1], FALSE)
    ELSE [run EXCEPT !.pulls = @ + 1, !.slept = @ + 5, !.pc = "verify", !.verify_attempt = 0]

\* mutant: the loop sleeps after its last attempt too and tries once more
Verify_step_OneMore(run, outcome) ==
    LET checked == [run EXCEPT !.health_checks = @ + 1, !.health = outcome]
    IN  IF outcome = "healthy"
        THEN [checked EXCEPT !.pc = "models"]
        ELSE IF run.verify_attempt < VERIFY_ATTEMPTS
        THEN [checked EXCEPT !.verify_attempt = @ + 1, !.slept = @ + 10]
        ELSE Returns(checked, FALSE)

\* one verification attempt (ollama_init.py:79-96)
Verify_step(run, outcome) ==
    LET checked == [run EXCEPT !.health_checks = @ + 1, !.health = outcome]
    IN  IF outcome = "healthy"
        THEN [checked EXCEPT !.pc = "models"]
        ELSE IF run.verify_attempt < VERIFY_ATTEMPTS - 1
        THEN [checked EXCEPT !.verify_attempt = @ + 1, !.slept = @ + 10]
        ELSE Returns(checked, FALSE)

\* client.get_models() for the log line (ollama_init.py:85-92); get_models answers []
\* when its request fails (ollama_client.py:203-222)
Models_step(run, outcome) == Returns([run EXCEPT !.models = @ + 1], TRUE)

\* the coroutine from one await to the next
initialize_ollama(run, outcome) ==
    CASE run.pc = "poll" -> Poll_step(run, outcome)
      [] run.pc = "check" -> Check_step(run, outcome)
      [] run.pc = "pull" -> Pull_step(run, outcome)
      [] run.pc = "verify" -> Verify_step(run, outcome)
      [] run.pc = "models" -> Models_step(run, outcome)

InitBootstrap ==
    /\ InitService
    /\ req = <<>>
    /\ InitHealth("ollama")
    /\ hybrid_retriever = NewHybridRetriever
    /\ lib_call = NewRun

InitializeOllama ==
    \E outcome \in RunOutcomesAt(lib_call.pc) :
        /\ lib_call' = initialize_ollama(lib_call, outcome)
        /\ last' = Step("initialize_ollama", 0, <<>>, NoSession,
                        [pc |-> lib_call.pc, outcome |-> outcome])
        /\ UNCHANGED <<serviceVars, req, healthVars, hybrid_retriever>>

NextBootstrap == InitializeOllama

SpecBootstrap == InitBootstrap /\ [][NextBootstrap]_vars

RunReturned == lib_call.returned # <<>>

\* C29: if none of the 30 polling attempts of initialize_ollama observes HTTP 200,
\* because they raised or were answered with another status, it returns False
\* without making the model health check and without a pull request.
C29_NoServiceNoCheck ==
    (lib_call.tags = max_attempts /\ ~lib_call.ready /\ lib_call.pc # "poll") =>
        /\ lib_call.returned = <<FALSE>>
        /\ lib_call.health_checks = 0
        /\ lib_call.pulls = 0

\* C30: initialize_ollama issues at most one model-pull request per run, and only
\* after the wait loop has ended and one health check has reported the model not
\* healthy; when that check reports healthy the run returns True at once, with no
\* pull and no verification check.
C30_OnePullAfterUnhealthyCheck ==
    [][/\ lib_call'.pulls # lib_call.pulls =>
              /\ lib_call.pulls = 0 /\ lib_call'.pulls = 1
              /\ lib_call.pc # "poll"
              /\ lib_call.health_checks = 1
              /\ lib_call.health = "unhealthy"
       /\ (lib_call.pc = "check" /\ lib_call'.health = "healthy") =>
              /\ lib_call'.returned = <<TRUE>>
              /\ lib_call'.pulls = 0
              /\ lib_call'.health_checks = 1
              /\ lib_call'.models = 0]_vars

\* the service was up at the third poll, the model was missing, the one pull was
\* made and the second verification check found the model: the run returned True
C30_Witness ==
    /\ lib_call.returned = <<TRUE>>
    /\ lib_call.tags = 3
    /\ lib_call.ready
    /\ lib_call.pulls = 1
    /\ lib_call.health_checks = 3

\* ---------------------------------------------------------------------------
\* Queries interleaved with the indexing tasks of sessions given the same upload
\* ---------------------------------------------------------------------------

InterleavedUploads == { <<FileA, FileB>>, <<FileBad, FileB>>, <<FileA, FileBad>>, <<FileB>> }

InitInterleaved ==
    /\ InitService
    /\ req \in InterleavedUploads
    /\ InitHealth("ollama")
    /\ InitLib

NextInterleaved == UploadRequest \/ Task \/ Query

SpecInterleaved == InitInterleaved /\ [][NextInterleaved]_vars

\* the verification checks made so far: the health checks after the one before the pull
VerifyChecks(run) == IF run.pulls = 0 THEN 0 ELSE run.health_checks - 1

\* C31: after the pull request returned, with whatever HTTP status, initialize_ollama
\* makes at most 6 verification health checks, returns True at the first one that
\* reports healthy, returns False exactly when all 6 report unhealthy, and sleeps 10
\* seconds after each of the first 5 unhealthy checks but not after the 6th.
C31_VerificationLoop ==
    [][/\ (lib_call.pc = "pull" /\ last'.body.outcome \in {"200", "500"}) =>
              /\ lib_call'.pc = "verify"
              /\ VerifyChecks(lib_call') = 0
       /\ VerifyChecks(lib_call') <= 6
       /\ (lib_call.pc = "verify" /\ last'.body.outcome = "healthy") =>
              /\ lib_call'.pc = "models"
              /\ lib_call'.slept = lib_call.slept
       /\ lib_call.pc = "models" =>
              /\ lib_call'.returned = <<TRUE>>
              /\ lib_call'.health_checks = lib_call.health_checks
              /\ lib_call'.slept = lib_call.slept
       /\ (lib_call.pc = "verify" /\ last'.body.outcome = "unhealthy") =>
              IF VerifyChecks(lib_call') < 6
              THEN /\ lib_call'.pc = "verify"
                   /\ lib_call'.slept = lib_call.slept + 10
              ELSE /\ lib_call'.returned = <<FALSE>>
                   /\ lib_call'.slept = lib_call.slept
       /\ (lib_call.pc \in {"verify", "models"} /\ lib_call'.returned = <<FALSE>>) =>
              /\ VerifyChecks(lib_call') = 6
              /\ last'.body.outcome = "unhealthy"]_vars

\* the pull was answered with another status than 200 and the sixth verification
\* check reported healthy after five sleeps of 10 seconds: the run returned True
C31_Witness ==
    /\ lib_call.returned = <<TRUE>>
    /\ lib_call.pulls = 1
    /\ VerifyChecks(lib_call) = 6
    /\ lib_call.tags = 1
    /\ lib_call.slept = 5 + 50
    /\ lib_call.models = 1

(***************************************************************************)
(* The startup hook (main.py:200-225): startup_event creates the task      *)
(* _init_ollama_background, which awaits initialize_ollama and logs its    *)
(* result; the application serves in both cases.                           *)
(***************************************************************************)

\* what _init_ollama_background logs for the value initialize_ollama returned
\* (main.py:214-224)
BackgroundLog(success) == IF success THEN "completed" ELSE "fallback responses"

\* _init_ollama_background after its await (main.py:211-225)
InitOllamaBackground ==
    /\ lib_call.pc = "returned"
    /\ lib_call' = [lib_call EXCEPT !.pc = "serving"]
    /\ last' = Step("_init_ollama_background", 0, <<>>, NoSession,
                    [pc |-> lib_call.pc, outcome |-> BackgroundLog(lib_call.returned[1])])
    /\ UNCHANGED <<serviceVars, req, healthVars, hybrid_retriever>>

NextStartup == InitializeOllama \/ InitOllamaBackground

\* the event loop runs the background task whenever it can take a step
SpecStartup == InitBootstrap /\ [][NextStartup]_vars /\ WF_vars(NextStartup)

\* the counts and the position of a run stay within what the loops allow
RunBounded ==
    /\ lib_call.pc \in {"poll", "check", "pull", "verify", "models", "returned", "serving"}
    /\ lib_call.tags <= max_attempts
    /\ lib_call.pulls <= 1
    /\ lib_call.health_checks <= 1 + VERIFY_ATTEMPTS
    /\ lib_call.returned \in {<<>>, <<TRUE>>, <<FALSE>>}
    /\ lib_call.pc \in {"returned", "serving"} <=> lib_call.returned # <<>>

\* C32: whatever its outbound calls answer (connection error, timeout, another
\* status than 200, a model that is not healthy, an exception of the pull),
\* initialize_ollama ends after at most 30 polls, 1 pull and 7 health checks and
\* returns True or False, never an exception; the startup hook goes on serving
\* after False as after True.
C32_BootstrapTerminates ==
    /\ []RunBounded
    /\ <>(lib_call.pc = "serving")

\* the longest run: 30 polls without a 200, the check and six verification checks
\* not healthy around the one pull; it returned False and the application serves
C32_Witness ==
    /\ lib_call.pc = "serving"
    /\ lib_call.returned = <<FALSE>>
    /\ lib_call.tags = 30
    /\ lib_call.pulls = 1
    /\ lib_call.health_checks = 7
    /\ last.body.outcome = "fallback responses"

-----------------------------------------------------------------------------
(* ensure_ollama_ready (ollama_init.py:106-121), callable "periodically or  *)
(* on-demand", beside the requests to the health endpoint                   *)

\* the methods class OllamaClient defines (ollama_client.py:35-222)
OllamaClientMethods ==
    {"__init__", "__aenter__", "__aexit__", "_ensure_session", "close", "_make_request",
     "health_check", "generate_text", "get_models"}

\* `await obj`: an object whose class has no __await__ cannot be awaited, the
\* expression raises TypeError
AwaitRaises(methods) == "__await__" \notin methods

EnsureStep(health_checks, logged) ==
    Step("ensure_ollama_ready", 0, <<>>, NoSession,
         [health_checks |-> health_checks, logged |-> logged, raised |-> FALSE])

\* `client = await OllamaClient()` inside the try (112), then the health check (113)
\* and the warning (115-119); the handler logs any exception as an error (120-121)
ensure_ollama_ready(outcome) ==
    IF AwaitRaises(OllamaClientMethods)
    THEN last' = EnsureStep(0, "error") /\ UNCHANGED healthVars
    ELSE /\ Len(health_calls) < MaxCalls
         /\ health_check_completed(outcome)
         /\ last' = EnsureStep(1, IF /\ ReturnedHealth(outcome).is_healthy
                                     /\ ReturnedHealth(outcome).is_available
                                  THEN "nothing" ELSE "warning")

EnsureOllamaReady ==
    \E response \in ProbeResponses(client) :
        /\ ensure_ollama_ready([raises |-> "nothing", text |-> <<>>, response |-> response])
        /\ UNCHANGED <<serviceVars, req, libVars>>

InitEnsureReady == InitHealthChecks /\ client = "ollama"

NextEnsureReady == EnsureOllamaReady \/ HealthEndpoint \/ Tick

SpecEnsureReady == InitEnsureReady /\ [][NextEnsureReady]_vars

\* C33: ensure_ollama_ready performs exactly one health check on a local-model
\* client and then returns without raising, whatever the outcome of the check.
C33_EnsureReadyChecksOnce ==
    last.op = "ensure_ollama_ready" =>
        /\ last.body.health_checks = 1
        /\ ~last.body.raised

-----------------------------------------------------------------------------
(* Uploads, tasks, polls and queries of two sessions interleaved           *)

\* the uploads of SpecInterleaved and an upload without files, which is turned away
SessionUploads == InterleavedUploads \cup {<<>>}

InitSessions ==
    /\ InitService
    /\ req \in SessionUploads
    /\ InitHealth("ollama")
    /\ InitLib

NextSessions == UploadRequest \/ Task \/ Poll \/ Query

SpecSessions == InitSessions /\ [][NextSessions]_vars

\* the session records of a state: status and retriever of every session
Records(status, retrievers) ==
    [s \in DOMAIN status \cup DOMAIN retrievers |->
        <<IF s \in DOMAIN status THEN <<status[s]>> ELSE <<>>,
          IF s \in DOMAIN retrievers THEN <<retrievers[s]>> ELSE <<>> >>]

\* C34: index_status and query never change SESSION_STATUS or SESSION_RETRIEVERS;
\* a session's records are created only by an accepted upload and changed only by
\* that session's own background task, and no operation removes a session.
C34_SessionFrame ==
    [][LET before == Records(SESSION_STATUS, SESSION_RETRIEVERS)
           after == Records(SESSION_STATUS', SESSION_RETRIEVERS')
       IN  /\ last'.op \in {"index_status", "query"} => after = before
           /\ DOMAIN SESSION_STATUS \subseteq DOMAIN SESSION_STATUS'
           /\ DOMAIN SESSION_RETRIEVERS \subseteq DOMAIN SESSION_RETRIEVERS'
           /\ \A s \in DOMAIN after \ DOMAIN before :
                  last'.op = "upload" /\ last'.code = 200 /\ last'.session_id = s
           /\ (last'.op = "upload" /\ last'.code # 200) => after = before
           /\ \A s \in DOMAIN before :
                  after[s] # before[s] => last'.op = "task" /\ last'.session_id = s]_vars

\* a poll of the second session, still indexing, after both were uploaded and the
\* first one's task had finished: both records are there, the second as its upload
\* stored it
C34_Witness ==
    /\ last.op = "index_status" /\ last.code = 200 /\ last.session_id = 2
    /\ DOMAIN SESSION_STATUS = {1, 2}
    /\ SESSION_STATUS[1].status = "done"
    /\ SESSION_STATUS[2].status = "indexing" /\ SESSION_STATUS[2].files_indexed = 0
    /\ SESSION_RETRIEVERS[1] # SESSION_RETRIEVERS[2]

-----------------------------------------------------------------------------
(* Uploads whose files share a name                                        *)

InitSameName ==
    /\ InitService
    /\ req \in SameNameUploads
    /\ InitHealth("ollama")
    /\ InitLib

NextSameName == UploadRequest \/ Task \/ Query

SpecSameName == InitSameName /\ [][NextSameName]_vars

\* no two entries of the sequence have the same key
KeysDistinct(entries) ==
    \A i, j \in 1..Len(entries) : DocKey(entries[i]) = DocKey(entries[j]) => i = j

\* C35: within one session's retriever no two stored entries share the same
\* (doc_id, chunk_id) pair, for every accepted upload, also one in which two files
\* carry the same file name, so that the fusion of HybridRetriever.search never
\* merges two different chunks under one key.
C35_ChunkKeysUnique ==
    \A s \in DOMAIN SESSION_RETRIEVERS :
        /\ KeysDistinct(SESSION_RETRIEVERS[s].vector_index.metadata)
        /\ KeysDistinct(SESSION_RETRIEVERS[s].keyword_index.documents)

-----------------------------------------------------------------------------
(* Searches of a retriever that holds documents                            *)

\* the retriever holds at least one document
HoldsDocument(retriever) ==
    VectorIndex_size(retriever.vector_index) + Len(retriever.keyword_index.documents) >= 1

\* the queries put to the retrievers of the sessions: the search queries of
\* SpecRetrieval and the questions of the query requests
ProbeQueries == SearchQueries \cup {Q_Policy, Q_WhoAaa}

\* C36: HybridRetriever.search with k >= 1 on a retriever holding at least one
\* document returns at least one result for every query, also for one that shares
\* no term with any stored text, so query answers "Not found in your files." with
\* no citations only for a done session whose retriever holds no document.
C36_NotFoundOnlyWhenEmpty ==
    /\ \A s \in DOMAIN SESSION_RETRIEVERS :
           HoldsDocument(SESSION_RETRIEVERS[s]) =>
               \A q \in ProbeQueries, k \in 1..(MaxK + 3) :
                   Len(search(SESSION_RETRIEVERS[s], q, k)) >= 1
    /\ (last.op = "query" /\ last.code = 200) =>
           /\ SESSION_STATUS[last.session_id].status = "done"
           /\ last.body.answer = S_NotFound =>
                  /\ ~HoldsDocument(SESSION_RETRIEVERS[last.session_id])
                  /\ last.body.citations = <<>>
           /\ HoldsDocument(SESSION_RETRIEVERS[last.session_id]) =>
                  /\ last.body.retrieved >= 1
                  /\ last.body.answer # S_NotFound

\* a question answered from a retriever of two chunks by its first search, every
\* retrieved chunk without any term of the question: both chunks were retrieved
C36_Witness ==
    /\ last.op = "query" /\ last.code = 200
    /\ Len(SESSION_RETRIEVERS[1].keyword_index.documents) = 2
    /\ last.body.searches = 1
    /\ last.body.retrieved = 2
    /\ \A i \in 1..Len(last.body.context) : last.body.context[i].keyword_score = Zero
    /\ last.body.answer # S_NotFound
    /\ KeywordIndex_search(SESSION_RETRIEVERS[1].keyword_index, Q_Policy, 5) = <<>>

-----------------------------------------------------------------------------
(* chunk_text run one iteration of its while loop at a time                *)
(* (retrieval.py:37-67).  windows records the slice tokens[start:end] of   *)
(* every iteration.                                                        *)

NewChunkRun(args) ==
    [text |-> args.text, max_tokens |-> args.max_tokens, overlap_pct |-> args.overlap_pct,
     pc |-> "called", tokens |-> <<>>, overlap_tokens |-> 0, start |-> 0,
     chunks |-> <<>>, windows |-> <<>>]

ChunkReturns(run, chunks) == [run EXCEPT !.pc = "returned", !.chunks = chunks]

\* from the call to the first test of the while condition (retrieval.py:37-49)
chunk_text_enter(run) ==
    IF IsBlank(run.text) THEN ChunkReturns(run, <<>>)
    ELSE LET tokens == Encode(run.text)
         IN  IF Len(tokens) <= run.max_tokens
             THEN ChunkReturns([run EXCEPT !.tokens = tokens],
                               <<[text |-> run.text, token_count |-> Len(tokens)]>>)
             ELSE [run EXCEPT !.pc = "loop", !.tokens = tokens, !.start = 0,
                              !.overlap_tokens = OverlapTokens(run.max_tokens, run.overlap_pct)]

\* the test of the while condition and one run of the loop body (retrieval.py:51-65)
chunk_text_iteration(run) ==
    IF ~(run.start < Len(run.tokens)) THEN ChunkReturns(run, run.chunks)
    ELSE LET end == WindowEnd(run.start, run.max_tokens, Len(run.tokens))
             chunk_tokens == SubSeq(run.tokens, run.start + 1, end)
             appended ==
                 [run EXCEPT !.chunks = Append(@, [text |-> Decode(chunk_tokens),
                                                   token_count |-> Len(chunk_tokens)]),
                             !.windows = Append(@, [start |-> run.start, end |-> end])]
         IN  IF end < Len(run.tokens)
             THEN [appended EXCEPT !.start = NextStart(end, run.overlap_tokens)]
             ELSE ChunkReturns(appended, appended.chunks)

InitChunkLoop ==
    /\ InitService
    /\ req = <<>>
    /\ InitHealth("ollama")
    /\ hybrid_retriever = NewHybridRetriever
    /\ lib_call \in {NewChunkRun(args) : args \in ChunkCalls}

ChunkLoopStep(run) ==
    /\ lib_call' = run
    /\ last' = Step("chunk_text", 0, <<>>, NoSession, [pc |-> lib_call.pc])
    /\ UNCHANGED <<serviceVars, req, healthVars, hybrid_retriever>>

ChunkEnter == lib_call.pc = "called" /\ ChunkLoopStep(chunk_text_enter(lib_call))

ChunkIteration == lib_call.pc = "loop" /\ ChunkLoopStep(chunk_text_iteration(lib_call))

NextChunkLoop == ChunkEnter \/ ChunkIteration

\* the interpreter runs the call on
SpecChunkLoop == InitChunkLoop /\ [][NextChunkLoop]_vars /\ WF_vars(NextChunkLoop)

ChunkRunReturned == lib_call.pc = "returned"

\* the call cut its text in the loop
LoopSplit == ChunkRunReturned /\ Len(lib_call.tokens) > lib_call.max_tokens

\* C37: chunk_text terminates for every max_tokens >= 1 and 0 <= overlap_pct < 1: the
\* window start strictly increases from one iteration to the next, the last chunk
\* ends at the last token, and no chunk is produced after a window reached the end
\* of the token stream.
C37_ChunkLoopTerminates ==
    /\ [][(lib_call.pc = "loop" /\ lib_call'.pc = "loop") =>
              /\ lib_call'.start > lib_call.start
              /\ Len(lib_call'.windows) = Len(lib_call.windows) + 1]_vars
    /\ [](\A i \in 1..Len(lib_call.windows) :
              lib_call.windows[i].end = Len(lib_call.tokens) =>
                  i = Len(lib_call.windows) /\ ChunkRunReturned)
    /\ [](LoopSplit =>
              /\ lib_call.windows # <<>>
              /\ lib_call.windows[Len(lib_call.windows)].end = Len(lib_call.tokens)
              /\ Len(lib_call.chunks) = Len(lib_call.windows))
    /\ <>ChunkRunReturned

\* seven tokens cut with max_tokens 4 and an overlap of 99 percent, three tokens:
\* the windows start at 0, 1, 2 and 3 and the fourth ends at the seventh token
C37_Witness ==
    /\ ChunkRunReturned
    /\ lib_call.text = WordsText(7) /\ lib_call.max_tokens = 4 /\ lib_call.overlap_pct = 99
    /\ lib_call.windows = <<[start |-> 0, end |-> 4], [start |-> 1, end |-> 5],
                            [start |-> 2, end |-> 6], [start |-> 3, end |-> 7]>>

\* the tokens of window i
WindowTokens(run, i) == SubSeq(run.tokens, run.windows[i].start + 1, run.windows[i].end)

\* window i without its leading overlap tokens, the first window whole
WithoutOverlap(run, i) ==
    IF i = 1 THEN WindowTokens(run, i)
    ELSE SubSeq(WindowTokens(run, i), run.overlap_tokens + 1, Len(WindowTokens(run, i)))

\* C38: for every text chunk_text splits (0 <= overlap_pct < 1) the chunks cover the
\* token stream without gaps: the first window starts at token 0, and dropping the
\* leading overlap tokens of every later chunk and concatenating what is left yields
\* the input token stream exactly.
C38_ChunksCoverTokens ==
    LoopSplit =>
        /\ lib_call.windows[1].start = 0
        /\ \A i \in 1..Len(lib_call.windows) :
               /\ lib_call.chunks[i].text = Decode(WindowTokens(lib_call, i))
               /\ lib_call.chunks[i].token_count = Len(WindowTokens(lib_call, i))
               /\ i > 1 => Len(WindowTokens(lib_call, i)) > lib_call.overlap_tokens
        /\ Flatten([i \in 1..Len(lib_call.windows) |-> WithoutOverlap(lib_call, i)])
               = lib_call.tokens
        /\ lib_call.chunks = chunk_text(lib_call.text, lib_call.max_tokens, lib_call.overlap_pct)

\* seven tokens cut with max_tokens 3 and one token of overlap: the windows 0-3, 2-5
\* and 4-7, of which the second and the third each give their last two tokens
C38_Witness ==
    /\ LoopSplit
    /\ lib_call.text = WordsText(7) /\ lib_call.max_tokens = 3 /\ lib_call.overlap_pct = 50
    /\ lib_call.overlap_tokens = 1
    /\ Len(lib_call.chunks) = 3
    /\ WithoutOverlap(lib_call, 3) = SubSeq(lib_call.tokens, 6, 7)

====
